---- MODULE Spec2Model ----
(***************************************************************************)
(* Verification model of the CCTV analysis pipeline (exodus2512/CCTvAnalysis).*)
(*                                                                         *)
(* Components, each with its own specification over the shared variables:  *)
(*   SpecZone       zone processors (backend/zones/*.py): suspicion,       *)
(*                  frame counters, per-event cooldowns                    *)
(*   SpecCooldown   EventCooldownManager (backend/worker/worker.py)        *)
(*   SpecEngine     event engine (event_engine/engine.py)                  *)
(*   SpecTracker    SimpleTracker (backend/worker/registry.py)             *)
(*   SpecAfterHours AfterHoursChecker.filter (backend/worker/behaviours.py)*)
(*   SpecWeapon     WeaponDetector.detect (backend/worker/detectors.py)    *)
(*   SpecGallery    PersonGallery (backend/worker/reid.py)                 *)
(*   SpecBuffer     TemporalBuffer's event counters (zones/base.py)        *)
(*   SpecGate       the gates of one event type, frame by frame            *)
(*   SpecEmitRace   should_emit called from two worker threads             *)
(*   SpecSingleton  first construction of the singletons from two threads  *)
(*   SpecReid       the Re-Id managers of the workers of one process       *)
(*   SpecWorker     CameraWorker: start, the capture loop, stop            *)
(*   SpecLauncher   run_all_configured_cameras                             *)
(*                                                                         *)
(* Numbers: confidences, suspicion scores and thresholds are in hundredths *)
(* (0.35 is 35), times are whole seconds.                                  *)
(***************************************************************************)
EXTENDS Integers, Sequences, FiniteSets, TLC

VARIABLES
    now,        \* time.time(): wall clock, seconds
    zp,         \* one zone processor instance (BaseZoneProcessor + subclass fields)
    focus,      \* the event type the frames of this run carry evidence for
    events,     \* the list process_frame returned for the latest frame
    obs,        \* observer: times of returned events per type (not program state)
    cm,         \* EventCooldownManager._state and the latest should_emit call
    eng,        \* event engine: _recent_events and the latest process_event result
    trk,        \* SimpleTracker, the objects in front of the camera, the latest result
    ahc,        \* an event list passed through AfterHoursChecker.filter
    wpn,        \* WeaponDetector and the latest detect result
    gal,        \* PersonGallery and the latest match_or_register call
    wk          \* camera workers: threads, their shared objects, the capture loop

vars == <<now, zp, focus, events, obs, cm, eng, trk, ahc, wpn, gal, wk>>


-----------------------------------------------------------------------------
(* Generic helpers *)

Min(a, b) == IF a <= b THEN a ELSE b

Max(a, b) == IF a >= b THEN a ELSE b

SetMax(S) == CHOOSE x \in S : \A y \in S : y <= x

-----------------------------------------------------------------------------
(* Bounds of the model *)

StartClock == 10        \* first clock value (time.time() is far beyond any cooldown)

ClockSlack == 1         \* the clock runs this far past one cooldown of the focus

MaxFrameCount == 3      \* frame counters are not driven beyond this

-----------------------------------------------------------------------------
(* Zone processors: backend/zones/base.py and subclasses *)

Zones == {"outgate", "corridor", "school_ground", "classroom"}

EventTypes == {"weapon_detected", "fire_smoke_detected", "vehicle_detected",
               "gate_accident", "fight", "fall_detected", "crowd_formation",
               "mobile_usage"}

NoTime == 0 - 1         \* None / key absent

\* BaseZoneProcessor.__init__: self._event_cooldowns, self._default_cooldown
EventCooldowns ==
    [e \in EventTypes |->
        CASE e = "weapon_detected"     -> 10
          [] e = "fight"               -> 8
          [] e = "gate_accident"       -> 8
          [] e = "vehicle_detected"    -> 5
          [] e = "crowd_formation"     -> 6
          [] e = "fire_smoke_detected" -> 10
          [] e = "mobile_usage"        -> 4
          [] e = "fall_detected"       -> 6]

DefaultCooldown == 5

get_event_cooldown(e) ==
    IF e \in DOMAIN EventCooldowns THEN EventCooldowns[e] ELSE DefaultCooldown

\* WEAPON_CONFIDENCE_BY_ZONE
WeaponConfidenceByZone ==
    [z \in Zones |->
        CASE z = "school_ground" -> 35
          [] z = "corridor"      -> 55
          [] z = "outgate"       -> 50
          [] z = "classroom"     -> 50]

FIRE_SMOKE_CONFIDENCE_THRESHOLD == 45

MIN_WEAPON_FRAMES == 2

MIN_FIRE_SMOKE_FRAMES == 2

WEAPON_SUSPICION_MIN == 50          \* "if suspicion < 0.50" in the weapon paths

FIRE_SMOKE_SUSPICION_MIN == 45      \* "if suspicion < 0.45"

WEAPON_INCREMENT == 30

FIRE_SMOKE_INCREMENT == 35

SUSPICION_THRESHOLD == 60

DEFAULT_INCREMENT == 15

DEFAULT_DECAY == 8

MAX_SCORE == 100                    \* the 1.0 of min(1.0, ...)

\* --- suspicion and cooldown helpers -----------------------------------------

\* A mutant of new_score: the clamps are lost.
new_score_unclamped(current, detected, increment, decay) ==
    IF detected THEN current + increment ELSE current - decay

\* _update_suspicion: new = min(1.0, current + increment) if detected
\*                          else max(0.0, current - decay)
new_score(current, detected, increment, decay) ==
    IF detected THEN Min(MAX_SCORE, current + increment)
                ELSE Max(0, current - decay)

\* variant of _update_suspicion that always steps by the default increment
update_suspicion_default_step(s, e, detected, increment, decay) ==
    [s EXCEPT !.suspicion_scores[e] =
                 new_score(@, detected, DEFAULT_INCREMENT, decay)]

\* _update_suspicion(event_type, detected, increment, decay); a missing key reads 0.0
update_suspicion(s, e, detected, increment, decay) ==
    [s EXCEPT !.suspicion_scores[e] = new_score(@, detected, increment, decay)]

decay_suspicion(s, e) == update_suspicion(s, e, FALSE, DEFAULT_INCREMENT, DEFAULT_DECAY)

\* A mutant of can_emit_event: the cooldown is compared one second short.
can_emit_event_short(s, e, t) ==
    t - s.last_event_times[e] >= get_event_cooldown(e) - 1

\* _can_emit_event: time.time() - self._last_event_times.get(event_type, 0) >= cooldown
can_emit_event(s, e, t) ==
    t - s.last_event_times[e] >= get_event_cooldown(e)

\* _mark_event_emitted
mark_event_emitted(s, e, t) == [s EXCEPT !.last_event_times[e] = t]

\* TemporalBuffer.increment_event: the start time is stamped only when the key is new
increment_event(s, e, t) ==
    LET fresh == s.event_counters[e] = NoTime
        base  == IF fresh THEN 0 ELSE s.event_counters[e]
    IN [s EXCEPT !.event_counters[e] = base + 1,
                 !.event_start_times[e] = IF fresh THEN t ELSE @]

\* TemporalBuffer.reset_event
reset_event(s, e) ==
    [s EXCEPT !.event_counters[e] = 0, !.event_start_times[e] = NoTime]

\* TemporalBuffer.get_event_duration: 0 when no start time is recorded
get_event_duration(s, e, t) ==
    IF s.event_start_times[e] = NoTime THEN 0 ELSE t - s.event_start_times[e]

\* A DetectionEvent as returned by a sub-detector.  frame_count and suspicion
\* record the counter and the score the emission decision read.
Event(type, confidence, frame_count, suspicion, source) ==
    [event_type |-> type, confidence |-> confidence,
     frame_count |-> frame_count, suspicion |-> suspicion, source |-> source]

None(s) == [s |-> s, ev |-> <<>>]

Emit(s, e) == [s |-> s, ev |-> <<e>>]

\* --- shared detection helpers (base.py) --------------------------------------

\* _process_shared_weapons(shared, persons); weapons is the set of confidences
\* of shared["weapons"]
process_shared_weapons(s, weapons, t) ==
    LET threshold == WeaponConfidenceByZone[s.zone_name]
        confident == {c \in weapons : c >= threshold}
    IN IF confident = {}
       THEN None(decay_suspicion([s EXCEPT !.weapon_frame_count = 0],
                                 "weapon_detected"))
       ELSE LET s1 == update_suspicion(
                         [s EXCEPT !.weapon_frame_count = @ + 1],
                         "weapon_detected", TRUE, WEAPON_INCREMENT, DEFAULT_DECAY)
                suspicion == s1.suspicion_scores["weapon_detected"]
            IN IF s1.weapon_frame_count < MIN_WEAPON_FRAMES THEN None(s1)
               ELSE IF suspicion < WEAPON_SUSPICION_MIN THEN None(s1)
               ELSE IF ~can_emit_event(s1, "weapon_detected", t) THEN None(s1)
               ELSE Emit([mark_event_emitted(s1, "weapon_detected", t)
                              EXCEPT !.weapon_frame_count = 0],
                         Event("weapon_detected", SetMax(confident),
                               s1.weapon_frame_count, suspicion, "weapon_model"))

\* _process_shared_fire_smoke(shared)
process_shared_fire_smoke(s, fire_smoke, t) ==
    LET confident == {c \in fire_smoke : c >= FIRE_SMOKE_CONFIDENCE_THRESHOLD}
    IN IF confident = {}
       THEN None(decay_suspicion([s EXCEPT !.fire_smoke_frame_count = 0],
                                 "fire_smoke_detected"))
       ELSE LET s1 == update_suspicion(
                         [s EXCEPT !.fire_smoke_frame_count = @ + 1],
                         "fire_smoke_detected", TRUE, FIRE_SMOKE_INCREMENT,
                         DEFAULT_DECAY)
                suspicion == s1.suspicion_scores["fire_smoke_detected"]
            IN IF s1.fire_smoke_frame_count < MIN_FIRE_SMOKE_FRAMES THEN None(s1)
               ELSE IF suspicion < FIRE_SMOKE_SUSPICION_MIN THEN None(s1)
               ELSE IF ~can_emit_event(s1, "fire_smoke_detected", t) THEN None(s1)
               ELSE Emit([mark_event_emitted(s1, "fire_smoke_detected", t)
                              EXCEPT !.fire_smoke_frame_count = 0],
                         Event("fire_smoke_detected", SetMax(confident),
                               s1.fire_smoke_frame_count, suspicion,
                               "fire_smoke_model"))

\* --- school_ground.py: COCO weapon fallback ----------------------------------

COCO_WEAPON_CONFIDENCE == 30

\* SchoolGroundProcessor._detect_coco_weapon(weapons, persons)
detect_coco_weapon(s, coco_weapons, t) ==
    LET confident == {c \in coco_weapons : c >= COCO_WEAPON_CONFIDENCE}
    IN IF confident = {}
       THEN None(decay_suspicion([s EXCEPT !.coco_weapon_frames = 0],
                                 "weapon_detected"))
       ELSE LET s1 == update_suspicion(
                         [s EXCEPT !.coco_weapon_frames = @ + 1],
                         "weapon_detected", TRUE, WEAPON_INCREMENT, DEFAULT_DECAY)
                suspicion == s1.suspicion_scores["weapon_detected"]
            IN IF s1.coco_weapon_frames < MIN_WEAPON_FRAMES THEN None(s1)
               ELSE IF suspicion < WEAPON_SUSPICION_MIN THEN None(s1)
               ELSE IF ~can_emit_event(s1, "weapon_detected", t) THEN None(s1)
               ELSE Emit([mark_event_emitted(s1, "weapon_detected", t)
                              EXCEPT !.coco_weapon_frames = 0],
                         Event("weapon_detected", SetMax(confident),
                               s1.coco_weapon_frames, suspicion, "coco_fallback"))

\* --- fight (corridor.py, school_ground.py, classroom.py: same gating) ---------

MIN_FIGHT_FRAMES == 3

FIGHT_INCREMENT == 20

\* _detect_fight(persons, poses, metadata).  fight is the outcome of
\* _pose_fight_check / _bbox_fight_check on the frame: mode "none" when neither
\* finds a candidate pair, else the best candidate's mode and confidence.
detect_fight(s, persons, fight, t) ==
    IF ~can_emit_event(s, "fight", t) THEN None(decay_suspicion(s, "fight"))
    ELSE IF persons < 2
    THEN None(decay_suspicion([s EXCEPT !.fight_frame_count = 0], "fight"))
    ELSE IF fight.mode = "none"
    THEN None(decay_suspicion([s EXCEPT !.fight_frame_count = 0], "fight"))
    ELSE LET s1 == update_suspicion([s EXCEPT !.fight_frame_count = @ + 1],
                                    "fight", TRUE, FIGHT_INCREMENT, DEFAULT_DECAY)
             suspicion == s1.suspicion_scores["fight"]
         IN IF s1.fight_frame_count < MIN_FIGHT_FRAMES THEN None(s1)
            ELSE IF suspicion < SUSPICION_THRESHOLD THEN None(s1)
            ELSE IF ~can_emit_event(s1, "fight", t) THEN None(s1)
            ELSE Emit([mark_event_emitted(s1, "fight", t)
                           EXCEPT !.fight_frame_count = 0],
                      Event("fight", fight.confidence, s1.fight_frame_count,
                            suspicion, fight.mode))

\* --- fall (school_ground.py) ---------------------------------------------------

MIN_FALL_FRAMES == 3

FALL_INCREMENT == 25

\* SchoolGroundProcessor._detect_fall(persons, poses).  fall is 0 when no person
\* qualifies as fallen, else the confidence of the first fallen person.
detect_fall(s, persons, fall, t) ==
    IF ~can_emit_event(s, "fall_detected", t)
    THEN None(decay_suspicion(s, "fall_detected"))
    ELSE IF persons = 0
    THEN None(decay_suspicion([s EXCEPT !.fall_frame_count = 0], "fall_detected"))
    ELSE IF fall = 0
    THEN None(decay_suspicion([s EXCEPT !.fall_frame_count = 0], "fall_detected"))
    ELSE LET s1 == update_suspicion([s EXCEPT !.fall_frame_count = @ + 1],
                                    "fall_detected", TRUE, FALL_INCREMENT,
                                    DEFAULT_DECAY)
             suspicion == s1.suspicion_scores["fall_detected"]
         IN IF s1.fall_frame_count < MIN_FALL_FRAMES THEN None(s1)
            ELSE IF suspicion < SUSPICION_THRESHOLD THEN None(s1)
            ELSE IF ~can_emit_event(s1, "fall_detected", t) THEN None(s1)
            ELSE Emit([mark_event_emitted(s1, "fall_detected", t)
                           EXCEPT !.fall_frame_count = 0],
                      Event("fall_detected", fall, s1.fall_frame_count,
                            suspicion, "fall"))

\* --- crowd (corridor.py, school_ground.py) -------------------------------------

MIN_CROWD_SIZE == 4

CROWD_INCREMENT == 12

\* MIN_CROWD_DURATION in half seconds: corridor 2.0 s, school_ground 2.5 s
MinCrowdDurationHalves(z) == IF z = "school_ground" THEN 5 ELSE 4

\* _detect_crowd(persons, metadata).  clustered: the cluster spread is within
\* CLUSTER_DISTANCE_THRESHOLD; metadata.timestamp is the frame's clock reading.
detect_crowd(s, persons, clustered, confidence, t) ==
    IF ~can_emit_event(s, "crowd_formation", t)
    THEN None(decay_suspicion(s, "crowd_formation"))
    ELSE IF persons < MIN_CROWD_SIZE \/ ~clustered
    THEN None(reset_event(
                decay_suspicion([s EXCEPT !.crowd_start_time = NoTime],
                                "crowd_formation"),
                "crowd_formation"))
    ELSE LET s0 == IF s.crowd_start_time = NoTime
                   THEN [s EXCEPT !.crowd_start_time = t] ELSE s
             duration == t - s0.crowd_start_time
             s1 == update_suspicion(s0, "crowd_formation", TRUE, CROWD_INCREMENT,
                                    DEFAULT_DECAY)
             suspicion == s1.suspicion_scores["crowd_formation"]
         IN IF 2 * duration < MinCrowdDurationHalves(s.zone_name) THEN None(s1)
            ELSE IF suspicion < SUSPICION_THRESHOLD THEN None(s1)
            ELSE IF ~can_emit_event(s1, "crowd_formation", t) THEN None(s1)
            ELSE Emit([mark_event_emitted(s1, "crowd_formation", t)
                           EXCEPT !.crowd_start_time = NoTime],
                      Event("crowd_formation", confidence, NoTime, suspicion,
                            "crowd"))

\* --- mobile usage (classroom.py) -----------------------------------------------

MOBILE_INCREMENT == 15

MinDetectionDurationHalves == 3     \* MIN_DETECTION_DURATION = 1.5 s

\* _detect_mobile_usage(persons, phones, metadata).  phones is "none" (no phone
\* tracked), "weak" (none at PHONE_CONFIDENCE_THRESHOLD), "unrelated" (no
\* person/phone pair qualifies) or "used" (a usage candidate exists).
detect_mobile_usage(s, persons, phones, confidence, t) ==
    IF ~can_emit_event(s, "mobile_usage", t)
    THEN None(decay_suspicion(s, "mobile_usage"))
    ELSE IF persons = 0 \/ phones = "none"
    THEN None(reset_event(
                decay_suspicion([s EXCEPT !.mobile_start_time = NoTime],
                                "mobile_usage"),
                "mobile_usage"))
    ELSE IF phones \in {"weak", "unrelated"}
    THEN None(decay_suspicion([s EXCEPT !.mobile_start_time = NoTime],
                              "mobile_usage"))
    ELSE LET s0 == IF s.mobile_start_time = NoTime
                   THEN [s EXCEPT !.mobile_start_time = t] ELSE s
             duration == t - s0.mobile_start_time
             s1 == update_suspicion(s0, "mobile_usage", TRUE, MOBILE_INCREMENT,
                                    DEFAULT_DECAY)
             suspicion == s1.suspicion_scores["mobile_usage"]
         IN IF 2 * duration < MinDetectionDurationHalves THEN None(s1)
            ELSE IF suspicion < SUSPICION_THRESHOLD THEN None(s1)
            ELSE IF ~can_emit_event(s1, "mobile_usage", t) THEN None(s1)
            ELSE Emit([mark_event_emitted(s1, "mobile_usage", t)
                           EXCEPT !.mobile_start_time = NoTime],
                      Event("mobile_usage", confidence, NoTime, suspicion,
                            "mobile"))

\* --- outgate.py ------------------------------------------------------------------

VEHICLE_CONFIDENCE_THRESHOLD == 45

VEHICLE_INCREMENT == 20

MIN_VEHICLE_FRAMES == 2             \* "frame_count < 2"

VEHICLE_SUSPICION_MIN == 40         \* "suspicion < 0.4"

\* variant of _detect_vehicle that holds an event back only while BOTH the counter
\* and the suspicion are below their gates
detect_vehicle_either_gate(s, vehicles, t) ==
    LET confident == {c \in vehicles : c >= VEHICLE_CONFIDENCE_THRESHOLD}
    IN IF ~can_emit_event(s, "vehicle_detected", t)
       THEN None(decay_suspicion(s, "vehicle_detected"))
       ELSE IF vehicles = {} \/ confident = {}
       THEN None(decay_suspicion(s, "vehicle_detected"))
       ELSE LET s1 == increment_event(
                         update_suspicion(s, "vehicle_detected", TRUE,
                                          VEHICLE_INCREMENT, DEFAULT_DECAY),
                         "vehicle_detected", t)
                suspicion   == s1.suspicion_scores["vehicle_detected"]
                frame_count == s1.event_counters["vehicle_detected"]
            IN IF frame_count < MIN_VEHICLE_FRAMES /\ suspicion < VEHICLE_SUSPICION_MIN
               THEN None(s1)
               ELSE Emit(reset_event(mark_event_emitted(s1, "vehicle_detected", t),
                                     "vehicle_detected"),
                         Event("vehicle_detected", SetMax(confident), frame_count,
                               suspicion, "vehicle"))

\* OutgateProcessor._detect_vehicle(vehicles); vehicles is the set of the
\* tracked vehicles' confidences
detect_vehicle(s, vehicles, t) ==
    LET confident == {c \in vehicles : c >= VEHICLE_CONFIDENCE_THRESHOLD}
    IN IF ~can_emit_event(s, "vehicle_detected", t)
       THEN None(decay_suspicion(s, "vehicle_detected"))
       ELSE IF vehicles = {} \/ confident = {}
       THEN None(decay_suspicion(s, "vehicle_detected"))
       ELSE LET s1 == increment_event(
                         update_suspicion(s, "vehicle_detected", TRUE,
                                          VEHICLE_INCREMENT, DEFAULT_DECAY),
                         "vehicle_detected", t)
                suspicion   == s1.suspicion_scores["vehicle_detected"]
                frame_count == s1.event_counters["vehicle_detected"]
            IN IF frame_count < MIN_VEHICLE_FRAMES \/ suspicion < VEHICLE_SUSPICION_MIN
               THEN None(s1)
               ELSE Emit(reset_event(mark_event_emitted(s1, "vehicle_detected", t),
                                     "vehicle_detected"),
                         Event("vehicle_detected", SetMax(confident), frame_count,
                               suspicion, "vehicle"))

MIN_ACCIDENT_FRAMES == 3

VEHICLE_MEMORY_SECONDS == 2

SUSPICION_INCREMENT_STRONG == 30

SUSPICION_INCREMENT_MODERATE == 18

SUSPICION_INCREMENT_WEAK == 8

ACCIDENT_MIN_AVG_CONFIDENCE == 35   \* "avg_conf < 0.35"

\* _reset_accident_state
reset_accident_state(s) ==
    reset_event(decay_suspicion([s EXCEPT !.accident_frame_count = 0],
                                "gate_accident"),
                "gate_accident")

\* OutgateProcessor._detect_accident(vehicles, persons, poses, metadata).
\* accident is the outcome of the four-stage pair evaluation on the frame: the
\* increment of the strongest (vehicle, person) pair (0: no pair has a signal)
\* and that pair's average confidence.
detect_accident(s, vehicles, persons, accident, t) ==
    IF ~can_emit_event(s, "gate_accident", t)
    THEN None(decay_suspicion(s, "gate_accident"))
    ELSE
    LET s0 == IF vehicles # {} THEN [s EXCEPT !.last_vehicle_time = t] ELSE s
        vehicle_recently_seen == t - s0.last_vehicle_time < VEHICLE_MEMORY_SECONDS
        \* skeleton collapse + recent vehicle raises every candidate to strong
        increment == IF accident.collapse /\ vehicle_recently_seen
                     THEN Max(accident.increment, SUSPICION_INCREMENT_STRONG)
                     ELSE accident.increment
        candidates == /\ vehicles # {}
                      /\ accident.increment > 0
                      /\ accident.confidence >= ACCIDENT_MIN_AVG_CONFIDENCE
    IN IF persons = 0 THEN None(reset_accident_state(s0))
       ELSE IF vehicles = {} /\ ~vehicle_recently_seen
       THEN None(reset_accident_state(s0))
       ELSE IF ~candidates THEN None(reset_accident_state(s0))
       ELSE LET s1 == update_suspicion(
                         [s0 EXCEPT !.accident_frame_count = @ + 1],
                         "gate_accident", TRUE, increment, DEFAULT_DECAY)
                suspicion == s1.suspicion_scores["gate_accident"]
            IN IF s1.accident_frame_count < MIN_ACCIDENT_FRAMES THEN None(s1)
               ELSE IF suspicion < SUSPICION_THRESHOLD THEN None(s1)
               ELSE Emit(reset_accident_state(
                            mark_event_emitted(s1, "gate_accident", t)),
                         Event("gate_accident", accident.confidence,
                               s1.accident_frame_count, suspicion, "accident"))

\* --- process_frame of the four processors ---------------------------------------

NoFight == [mode |-> "none", confidence |-> 0]

NoAccident == [increment |-> 0, confidence |-> 0, collapse |-> FALSE]

\* A frame as the sub-detectors see it
EmptyFrame ==
    [weapons |-> {}, coco_weapons |-> {}, fire_smoke |-> {}, vehicles |-> {},
     persons |-> 0, fight |-> NoFight, fall |-> 0, clustered |-> FALSE,
     phones |-> "none", accident |-> NoAccident, confidence |-> 0]

\* Sequencing: r is the result so far, the next sub-detector runs on its state
\* and its event, if any, is appended (events.append)
Both(r1, r2) == [s |-> r2.s, ev |-> r1.ev \o r2.ev]

then_accident(r, f, t) ==
    Both(r, detect_accident(r.s, f.vehicles, f.persons, f.accident, t))

then_fire_smoke(r, f, t) == Both(r, process_shared_fire_smoke(r.s, f.fire_smoke, t))

then_fight(r, f, t) == Both(r, detect_fight(r.s, f.persons, f.fight, t))

then_fall(r, f, t) == Both(r, detect_fall(r.s, f.persons, f.fall, t))

then_crowd(r, f, t) ==
    Both(r, detect_crowd(r.s, f.persons, f.clustered, f.confidence, t))

then_mobile(r, f, t) ==
    Both(r, detect_mobile_usage(r.s, f.persons, f.phones, f.confidence, t))

\* "elif not weapon_event and coco_weapons": the COCO fallback runs when the
\* shared path returned no event and the frame tracks a knife or scissors
then_coco_weapon(r, f, t) ==
    IF r.ev = <<>> /\ f.coco_weapons # {}
    THEN Both(r, detect_coco_weapon(r.s, f.coco_weapons, t))
    ELSE r

\* OutgateProcessor.process_frame: vehicle, then accident
outgate_process_frame(s, f, t) ==
    then_accident(detect_vehicle(s, f.vehicles, t), f, t)

\* CorridorProcessor.process_frame: weapon > fire/smoke > fight > crowd
corridor_process_frame(s, f, t) ==
    then_crowd(
      then_fight(
        then_fire_smoke(process_shared_weapons(s, f.weapons, t), f, t), f, t), f, t)

\* SchoolGroundProcessor.process_frame: weapon (shared, else COCO fallback),
\* fire/smoke, fight, fall, crowd
school_ground_process_frame(s, f, t) ==
    then_crowd(
      then_fall(
        then_fight(
          then_fire_smoke(
            then_coco_weapon(process_shared_weapons(s, f.weapons, t), f, t),
            f, t), f, t), f, t), f, t)

\* ClassroomProcessor.process_frame: weapon > fire/smoke > fight > mobile
classroom_process_frame(s, f, t) ==
    then_mobile(
      then_fight(
        then_fire_smoke(process_shared_weapons(s, f.weapons, t), f, t), f, t), f, t)

process_frame(s, f, t) ==
    CASE s.zone_name = "outgate"       -> outgate_process_frame(s, f, t)
      [] s.zone_name = "corridor"      -> corridor_process_frame(s, f, t)
      [] s.zone_name = "school_ground" -> school_ground_process_frame(s, f, t)
      [] s.zone_name = "classroom"     -> classroom_process_frame(s, f, t)

\* __init__ of BaseZoneProcessor and of the subclass
NewProcessor(z) ==
    [zone_name              |-> z,
     suspicion_scores       |-> [e \in EventTypes |-> 0],
     last_event_times       |-> [e \in EventTypes |-> 0],
     weapon_frame_count     |-> 0,
     fire_smoke_frame_count |-> 0,
     coco_weapon_frames     |-> 0,
     fight_frame_count      |-> 0,
     fall_frame_count       |-> 0,
     accident_frame_count   |-> 0,
     crowd_start_time       |-> NoTime,
     mobile_start_time      |-> NoTime,
     last_vehicle_time      |-> 0,
     event_counters         |-> [e \in EventTypes |-> NoTime],
     event_start_times      |-> [e \in EventTypes |-> NoTime]]

\* The frames a run feeds: evidence for the run's focus event type only (the
\* sub-detectors of different event types share no state).
Frames(e) ==
    CASE e = "weapon_detected" ->
            {[EmptyFrame EXCEPT !.weapons = w] : w \in {{}, {40}, {52}, {40, 60}}}
            \cup {[EmptyFrame EXCEPT !.weapons = w, !.coco_weapons = c] :
                     w \in {{}, {40}}, c \in {{25}, {45}}}
      [] e = "fire_smoke_detected" ->
            {[EmptyFrame EXCEPT !.fire_smoke = w] : w \in {{}, {40}, {50}, {50, 80}}}
      [] e = "vehicle_detected" ->
            {[EmptyFrame EXCEPT !.vehicles = w] : w \in {{}, {40}, {50}, {50, 70}}}
      [] e = "gate_accident" ->
            {[EmptyFrame EXCEPT !.vehicles = w, !.persons = p] :
                w \in {{}, {40}}, p \in {0, 1}}
            \cup {[EmptyFrame EXCEPT !.vehicles = {40}, !.persons = 1,
                                     !.accident = a] :
                     a \in {[increment |-> SUSPICION_INCREMENT_WEAK,
                              confidence |-> 50, collapse |-> FALSE],
                            [increment |-> SUSPICION_INCREMENT_WEAK,
                              confidence |-> 50, collapse |-> TRUE],
                            [increment |-> SUSPICION_INCREMENT_MODERATE,
                              confidence |-> 50, collapse |-> FALSE],
                            [increment |-> SUSPICION_INCREMENT_STRONG,
                              confidence |-> 50, collapse |-> FALSE],
                            [increment |-> SUSPICION_INCREMENT_STRONG,
                              confidence |-> 30, collapse |-> FALSE]}}
      [] e = "fight" ->
            {[EmptyFrame EXCEPT !.persons = p, !.fight = g] :
                p \in {1, 2},
                g \in {NoFight, [mode |-> "pose", confidence |-> 45],
                       [mode |-> "pose", confidence |-> 70],
                       [mode |-> "bbox", confidence |-> 70]}}
      [] e = "fall_detected" ->
            {[EmptyFrame EXCEPT !.persons = p, !.fall = g] :
                p \in {0, 1}, g \in {0, 60}}
      [] e = "crowd_formation" ->
            {[EmptyFrame EXCEPT !.persons = p, !.clustered = c, !.confidence = 60] :
                p \in {3, 4}, c \in BOOLEAN}
      [] e = "mobile_usage" ->
            {EmptyFrame}
            \cup {[EmptyFrame EXCEPT !.persons = 1, !.phones = c, !.confidence = 55] :
                     c \in {"none", "weak", "unrelated", "used"}}

CountersWithin(s) ==
    /\ s.weapon_frame_count <= MaxFrameCount
    /\ s.fire_smoke_frame_count <= MaxFrameCount
    /\ s.coco_weapon_frames <= MaxFrameCount
    /\ s.fight_frame_count <= MaxFrameCount
    /\ s.fall_frame_count <= MaxFrameCount
    /\ s.accident_frame_count <= MaxFrameCount
    /\ \A e \in EventTypes : s.event_counters[e] <= MaxFrameCount

CountOf(evs, e) == Cardinality({i \in DOMAIN evs : evs[i].event_type = e})

\* The observer: per event type the time of the latest returned event and the
\* gap between the latest two (NoTime while there are fewer than two), and the
\* sources (code paths) that have returned one.
Observe(o, evs, t) ==
    [prev |-> [e \in EventTypes |-> IF CountOf(evs, e) > 0 THEN t ELSE o.prev[e]],
     sources |-> [e \in EventTypes |->
                    o.sources[e] \cup {evs[i].source : i \in
                                         {j \in DOMAIN evs : evs[j].event_type = e}}],
     gap  |-> [e \in EventTypes |->
                 IF CountOf(evs, e) > 1 THEN 0
                 ELSE IF CountOf(evs, e) = 1 /\ o.prev[e] # NoTime
                      THEN t - o.prev[e]
                      ELSE o.gap[e]]]

-----------------------------------------------------------------------------
(* backend/worker/worker.py: EventCooldownManager (flood protection) *)

EVENT_COOLDOWN_SECONDS == 10

EVENT_TYPE_COOLDOWNS ==
    [weapon_detected     |-> 10,
     fight               |-> 8,
     gate_accident       |-> 8,
     vehicle_detected    |-> 5,
     crowd_formation     |-> 6,
     fire_smoke_detected |-> 10,
     mobile_usage        |-> 4,
     fall_detected       |-> 6]

\* confidence_increase_threshold = 0.10: the bypass factor (1 + 0.10), in hundredths
CONFIDENCE_FACTOR == 110

CooldownCameras == {"cam1", "cam2"}

\* event types the manager is asked about; after_hours_intrusion has no entry in
\* EVENT_TYPE_COOLDOWNS and falls to the default
CooldownTypes == {"mobile_usage", "after_hours_intrusion"}

CooldownConfidences == {50, 55, 56}

\* key f"{camera_id}:{event_type}"
CooldownKeys == CooldownCameras \X CooldownTypes

\* a key that is not in _state
NoEntry == [last_time |-> NoTime, last_confidence |-> 0]

\* variant of _get_cooldown that gives unlisted types 5 s
get_cooldown_default_five(event_type) ==
    IF event_type \in DOMAIN EVENT_TYPE_COOLDOWNS
    THEN EVENT_TYPE_COOLDOWNS[event_type]
    ELSE 5

\* EventCooldownManager._get_cooldown
get_cooldown(event_type) ==
    IF event_type \in DOMAIN EVENT_TYPE_COOLDOWNS
    THEN EVENT_TYPE_COOLDOWNS[event_type]
    ELSE EVENT_COOLDOWN_SECONDS

\* variant of should_emit whose confidence bypass fires at exactly +10 %
should_emit_at_factor(state, camera_id, event_type, confidence, t) ==
    LET key == <<camera_id, event_type>>
        stamped == [state EXCEPT ![key] = [last_time |-> t,
                                           last_confidence |-> confidence]]
    IN IF state[key] = NoEntry THEN [state |-> stamped, emit |-> TRUE]
       ELSE IF t - state[key].last_time >= get_cooldown(event_type)
       THEN [state |-> stamped, emit |-> TRUE]
       ELSE IF confidence * 100 >= state[key].last_confidence * CONFIDENCE_FACTOR
       THEN [state |-> stamped, emit |-> TRUE]
       ELSE [state |-> state, emit |-> FALSE]

\* EventCooldownManager.should_emit(camera_id, event_type, confidence) at clock t
should_emit(state, camera_id, event_type, confidence, t) ==
    LET key == <<camera_id, event_type>>
        cooldown == get_cooldown(event_type)
        stamped == [state EXCEPT ![key] = [last_time |-> t,
                                           last_confidence |-> confidence]]
    IN IF state[key] = NoEntry THEN [state |-> stamped, emit |-> TRUE]
       ELSE LET elapsed   == t - state[key].last_time
                prev_conf == state[key].last_confidence
            IN IF elapsed >= cooldown THEN [state |-> stamped, emit |-> TRUE]
               ELSE IF confidence * 100 > prev_conf * CONFIDENCE_FACTOR
               THEN [state |-> stamped, emit |-> TRUE]
               ELSE [state |-> state, emit |-> FALSE]

\* EventCooldownManager.reset(camera_id); camera_id "" stands for None
cooldown_reset(state, camera_id) ==
    [k \in CooldownKeys |->
        IF camera_id = "" \/ k[1] = camera_id THEN NoEntry ELSE state[k]]

NoCall == [camera_id |-> "", confidence |-> 0, t |-> NoTime, emit |-> FALSE,
           before |-> NoEntry, after |-> NoEntry, others_kept |-> TRUE]

\* EventCooldownManager() serving a stream of events of one type
NewCooldownManager(e) ==
    [event_type |-> e, state |-> [k \in CooldownKeys |-> NoEntry], call |-> NoCall]

-----------------------------------------------------------------------------
(* event_engine/engine.py: multi-frame verification *)

EVENT_CONFIG ==
    [fight            |-> [window_sec |-> 5,  min_frames |-> 3, threshold |-> 65,
                           priority |-> "high"],
     exam_malpractice |-> [window_sec |-> 10, min_frames |-> 2, threshold |-> 60,
                           priority |-> "medium"],
     gate_accident    |-> [window_sec |-> 4,  min_frames |-> 1, threshold |-> 80,
                           priority |-> "critical"],
     intrusion        |-> [window_sec |-> 8,  min_frames |-> 2, threshold |-> 70,
                           priority |-> "high"],
     abandoned_object |-> [window_sec |-> 20, min_frames |-> 2, threshold |-> 65,
                           priority |-> "high"],
     fire_smoke       |-> [window_sec |-> 3,  min_frames |-> 1, threshold |-> 75,
                           priority |-> "critical"]]

\* deque(maxlen=64)
DEQUE_MAXLEN == 64

EngineTenants == {"school1"}

EngineCameras == {"cam1", "cam2"}

\* weapon_detected is not a key of EVENT_CONFIG
EngineTypes == {"fight", "gate_accident", "fire_smoke", "weapon_detected"}

\* event["timestamp"] is supplied by the sender; streams need not be in time order
EngineTimestamps == {0, 1, 6}

EngineConfidences == {50, 65, 80}

\* the events of a fire_smoke stream: three within 3 s and one 5 s later, at 0.8
\* or just under the threshold
FireSmokeTimestamps == {0, 1, 2, 7}

FireSmokeConfidences == {70, 80}

TimestampsOf(e) == IF e = "fire_smoke" THEN FireSmokeTimestamps ELSE EngineTimestamps

ConfidencesOf(e) == IF e = "fire_smoke" THEN FireSmokeConfidences ELSE EngineConfidences

EngineKeys == EngineTenants \X EngineCameras \X EngineTypes

\* _make_key
make_key(event) == <<event.tenant_id, event.camera_id, event.event_type>>

\* deque.append on a deque with maxlen: a full deque drops its head
deque_append(buf, x) ==
    IF Len(buf) >= DEQUE_MAXLEN THEN Append(Tail(buf), x) ELSE Append(buf, x)

\* variant of the pruning loop that pops nothing
prune_nothing(buf, t, window_sec) == buf

\* "while buf and (now - buf[0]['ts']) > window_sec: buf.popleft()"
RECURSIVE prune(_, _, _)
prune(buf, t, window_sec) ==
    IF buf # <<>> /\ (t - Head(buf).ts) > window_sec
    THEN prune(Tail(buf), t, window_sec)
    ELSE buf

\* _update_state: the buffer of the key after append and prune
update_state(recent, key, event, window_sec) ==
    prune(deque_append(recent[key],
                       [ts |-> event.timestamp, confidence |-> event.confidence]),
          event.timestamp, window_sec)

\* sum(f["confidence"] for f in frames)
RECURSIVE confidence_sum(_)
confidence_sum(frames) ==
    IF frames = <<>> THEN 0 ELSE Head(frames).confidence + confidence_sum(Tail(frames))

\* variant of the verdict that takes either condition as enough
is_incident_either(frames, config) ==
    \/ Len(frames) >= config.min_frames
    \/ (frames # <<>> /\ confidence_sum(frames) >= config.threshold * Len(frames))

\* "enough_frames and over_threshold", suspicion_score being
\* _compute_suspicion_score(frames) = sum / len (0.0 for no frames)
is_incident(frames, config) ==
    LET enough_frames  == Len(frames) >= config.min_frames
        over_threshold == IF frames = <<>> THEN 0 >= config.threshold
                          ELSE confidence_sum(frames) >= config.threshold * Len(frames)
    IN enough_frames /\ over_threshold

\* the payload for an unconfigured type carries no priority
NoResult == [configured |-> FALSE, incident |-> FALSE, key |-> <<>>,
             score_sum |-> 0, frames_considered |-> 0, priority |-> ""]

\* variant of process_event that looks an event type up without its "_detected"
process_event_detected_alias(recent, event) ==
    IF event.event_type = "fire_smoke_detected"
    THEN LET e == [event EXCEPT !.event_type = "fire_smoke"]
             config == EVENT_CONFIG[e.event_type]
             frames == update_state(recent, make_key(e), e, config.window_sec)
         IN [recent |-> [recent EXCEPT ![make_key(e)] = frames],
             result |-> [configured |-> TRUE, incident |-> is_incident(frames, config),
                         key |-> make_key(e), score_sum |-> confidence_sum(frames),
                         frames_considered |-> Len(frames), priority |-> config.priority]]
    ELSE [recent |-> recent, result |-> [NoResult EXCEPT !.key = make_key(event)]]

\* variant of process_event that buffers an event of an unconfigured type too
process_event_any_type(recent, event) ==
    LET key == make_key(event)
    IN [recent |-> [recent EXCEPT ![key] =
                       deque_append(@, [ts |-> event.timestamp,
                                        confidence |-> event.confidence])],
        result |-> [NoResult EXCEPT !.key = key]]

\* process_event(event): the new _recent_events and the returned payload; the
\* payload's suspicion_score is score_sum / frames_considered
process_event(recent, event) ==
    IF event.event_type \notin DOMAIN EVENT_CONFIG
    THEN [recent |-> recent,
          result |-> [NoResult EXCEPT !.key = make_key(event)]]
    ELSE LET config == EVENT_CONFIG[event.event_type]
             key    == make_key(event)
             frames == update_state(recent, key, event, config.window_sec)
         IN [recent |-> [recent EXCEPT ![key] = frames],
             result |-> [configured |-> TRUE,
                         incident |-> is_incident(frames, config),
                         key |-> key,
                         score_sum |-> confidence_sum(frames),
                         frames_considered |-> Len(frames),
                         priority |-> config.priority]]

\* the keys of _recent_events after process_event(event): the defaultdict gets a
\* key when _update_state reads _recent_events[key]
created_keys(keys, event) ==
    IF event.event_type \notin DOMAIN EVENT_CONFIG THEN keys
    ELSE keys \cup {make_key(event)}

\* Progress of a stream through the scenario "three events for one key within
\* 3 s at confidence 0.8 into an empty window, then a fourth 5 s after the third":
\* stage k after the k-th such event in a row, 0 otherwise
NoScenario == [stage |-> 0, key |-> <<>>, first |-> 0, last |-> 0]

scenario_step(sc, recent, event) ==
    LET key   == make_key(event)
        t     == event.timestamp
        start == IF event.confidence = 80 /\ recent[key] = <<>>
                 THEN [stage |-> 1, key |-> key, first |-> t, last |-> t]
                 ELSE NoScenario
    IN IF event.event_type \notin DOMAIN EVENT_CONFIG THEN NoScenario
       ELSE IF /\ sc.stage \in {1, 2} /\ key = sc.key /\ event.confidence = 80
               /\ t >= sc.last /\ t - sc.first <= 3
       THEN [sc EXCEPT !.stage = @ + 1, !.last = t]
       ELSE IF sc.stage = 3 /\ key = sc.key /\ t = sc.last + 5
       THEN [sc EXCEPT !.stage = 4, !.last = t]
       ELSE start

\* the module state at import, serving a stream of events of one type
NewEngine(e) ==
    [event_type |-> e, recent |-> [k \in EngineKeys |-> <<>>], keys |-> {},
     result |-> NoResult, n |-> 0,
     type |-> "", ts |-> 0, confidence |-> 0, kept |-> TRUE, in_order |-> TRUE,
     scenario |-> NoScenario]

-----------------------------------------------------------------------------
(* backend/worker/registry.py: SimpleTracker (centroid tracker) *)

MAX_DISAPPEARED == 10       \* SimpleTracker(max_disappeared=10)

MAX_DISTANCE == 100         \* SimpleTracker(max_distance=100.0), pixels

MaxIds == 3                 \* registrations of one run, resets included

MaxCell == 3                \* box centres lie on cells 0..MaxCell of a 100 px grid

TrackerIds == 0 .. (MaxIds - 1)

NoId == 0 - 1

\* an id that is not a key of _objects.  Of an entry the model keeps what update
\* reads again: centroid, class_name, disappeared.  tag is not program state: it names the
\* scene object whose detection the entry was last given.
NoObject == [present |-> FALSE, centroid |-> 0, class_name |-> "",
             disappeared |-> 0, tag |-> 0]

\* SimpleTracker.__init__
NewTracker == [next_id |-> 0, objects |-> [i \in TrackerIds |-> NoObject]]

\* np.hypot(oc[0] - ic[0], oc[1] - ic[1]) for boxes that share their vertical centre
hypot(oc, ic) == IF oc >= ic THEN oc - ic ELSE ic - oc

\* variant of the distance gate that also refuses a move of exactly max_distance
too_far_at_limit(d) == d >= MAX_DISTANCE

\* "if D[r, c] > self._max_distance: continue"
too_far(d) == d > MAX_DISTANCE

\* variant of the purge that drops an object on its 10th miss
disappear_early(obj) ==
    IF obj.disappeared + 1 >= MAX_DISAPPEARED THEN NoObject
    ELSE [obj EXCEPT !.disappeared = @ + 1]

\* "disappeared += 1; if disappeared > max_disappeared: del"
disappear(obj) ==
    IF obj.disappeared + 1 > MAX_DISAPPEARED THEN NoObject
    ELSE [obj EXCEPT !.disappeared = @ + 1]

\* SimpleTracker._register
register(tracker, det) ==
    [next_id |-> tracker.next_id + 1,
     objects |-> [i \in TrackerIds |->
                    IF i = tracker.next_id
                    THEN [present |-> TRUE, centroid |-> det.x,
                          class_name |-> det.class_name,
                          disappeared |-> 0, tag |-> det.obj]
                    ELSE tracker.objects[i]]]

\* the detections with indices cols, registered in ascending index order
RECURSIVE register_all(_, _, _)
register_all(tracker, detections, cols) ==
    IF cols = {} THEN tracker
    ELSE LET c == CHOOSE x \in cols : \A y \in cols : x <= y
         IN register_all(register(tracker, detections[c]), detections, cols \ {c})

\* The greedy pass over np.argsort(D.flatten()): repeatedly the closest pair of a
\* free row and a free column that is not too far.  Pairs at equal distance are
\* taken in any order (argsort does not promise one); the result is the set of
\* matchings the pass can produce, each a set of <<object id, detection index>>.
RECURSIVE greedy_match(_, _, _, _)
greedy_match(objects, detections, rows, cols) ==
    LET D(p) == hypot(objects[p[1]].centroid, detections[p[2]].x)
        cand == {p \in rows \X cols : ~too_far(D(p))}
        best == {p \in cand : \A q \in cand : D(p) <= D(q)}
    IN IF cand = {} THEN {{}}
       ELSE UNION {{{p} \cup rest :
                      rest \in greedy_match(objects, detections,
                                            rows \ {p[1]}, cols \ {p[2]})} :
                   p \in best}

\* the tracker after the pairs of matching are applied, the unmatched objects have
\* missed once more, and the unmatched detections are registered
apply_matching(tracker, detections, matching) ==
    LET matched_rows == {p[1] : p \in matching}
        matched_cols == {p[2] : p \in matching}
        col_of(i) == CHOOSE c \in matched_cols : <<i, c>> \in matching
        objects1 ==
            [i \in TrackerIds |->
                IF i \in matched_rows
                THEN [present |-> TRUE,
                      centroid |-> detections[col_of(i)].x,
                      class_name |-> detections[col_of(i)].class_name,
                      disappeared |-> 0,
                      tag |-> detections[col_of(i)].obj]
                ELSE IF tracker.objects[i].present
                THEN disappear(tracker.objects[i])
                ELSE NoObject]
    IN register_all([tracker EXCEPT !.objects = objects1], detections,
                    DOMAIN detections \ matched_cols)

\* SimpleTracker.update(detections): the trackers the call can leave behind.  The
\* returned list is the entries with disappeared = 0.
update(tracker, detections) ==
    LET present == {i \in TrackerIds : tracker.objects[i].present}
    IN IF detections = <<>>
       THEN {[tracker EXCEPT !.objects =
                 [i \in TrackerIds |-> IF i \in present
                                       THEN disappear(tracker.objects[i])
                                       ELSE NoObject]]}
       ELSE IF present = {}
       THEN {register_all(tracker, detections, DOMAIN detections)}
       ELSE {apply_matching(tracker, detections, m) :
                m \in greedy_match(tracker.objects, detections, present,
                                   DOMAIN detections)}

\* SimpleTracker.reset
tracker_reset(tracker) == NewTracker

\* the ids update returned: "if obj['disappeared'] == 0"
returned_ids(tracker) ==
    {i \in TrackerIds : tracker.objects[i].present /\ tracker.objects[i].disappeared = 0}

\* --- the scene in front of the camera -----------------------------------------

SceneObjects == {1, 2}

SceneClass == <<"person", "car">>

Cells == {100 * c : c \in 0 .. MaxCell}

\* displacement of a box centre between two frames; 200 is more than max_distance
Moves == {0 - 100, 0, 100, 200}

\* the visible objects as update's detections, in object order
RECURSIVE detections_of(_, _, _)
detections_of(objs, pos, visible) ==
    IF objs = {} THEN <<>>
    ELSE LET o == CHOOSE x \in objs : \A y \in objs : x <= y
             rest == detections_of(objs \ {o}, pos, visible)
         IN IF o \in visible
            THEN <<[x |-> pos[o], class_name |-> SceneClass[o], obj |-> o]>> \o rest
            ELSE rest

\* the id under which the tracker returns scene object o (NoId when it returns none)
id_of(tracker, o) ==
    LET ids == {i \in returned_ids(tracker) : tracker.objects[i].tag = o}
    IN IF ids = {} THEN NoId ELSE CHOOSE i \in ids : TRUE

\* a tracker in front of n objects that no frame has shown yet.  script is what
\* the objects of the run do: "moving" (every object is detected on every frame)
\* or "blinking" (the objects stand still and are detected on some frames).
NewScene(n, pos, script) ==
    [tracker |-> NewTracker, n |-> n, pos |-> pos, script |-> script,
     moved |-> FALSE,
     first |-> [o \in SceneObjects |-> NoId],
     held  |-> [o \in SceneObjects |-> NoId],
     last  |-> [o \in SceneObjects |-> NoId],
     calm  |-> "apart",
     misses |-> [i \in TrackerIds |-> 0],
     seen |-> {}, fresh |-> {}, reappeared |-> {}, near |-> {},
     ever |-> {}, handed |-> 0, resets |-> 0,
     born |-> [i \in TrackerIds |-> ""]]

-----------------------------------------------------------------------------
(* backend/worker/behaviours.py: AfterHoursChecker *)

\* DEFAULT_SCHOOL_START "07:30" and DEFAULT_SCHOOL_END "17:00", seconds of the day
SCHOOL_START == 27000

SCHOOL_END == 61200

RESTRICTED_ZONES_AFTER_HOURS == {"corridor", "classroom", "school_ground"}

AFTER_HOURS_SEVERITY_MULTIPLIER == 150      \* 1.5

AFTER_HOURS_SEVERITY_CAP == 100             \* 1.0

INTRUSION_CONFIDENCE == 90                  \* confidence=0.90

\* AfterHoursChecker.is_after_hours(ts), ts as the second of the day it falls on
is_after_hours(ts) == ~(SCHOOL_START <= ts /\ ts <= SCHOOL_END)

\* variant of the escalation without the cap
escalate_uncapped(confidence) ==
    (confidence * AFTER_HOURS_SEVERITY_MULTIPLIER) \div 100

\* min(AFTER_HOURS_SEVERITY_CAP, confidence * AFTER_HOURS_SEVERITY_MULTIPLIER)
escalate(confidence) ==
    Min(AFTER_HOURS_SEVERITY_CAP, (confidence * AFTER_HOURS_SEVERITY_MULTIPLIER) \div 100)

\* AfterHoursChecker._any_persons_in_events
any_persons_in_events(evs) ==
    \E i \in DOMAIN evs :
        evs[i].event_type \in {"mobile_usage", "fight", "crowd_formation",
                               "weapon_detected", "fall_detected"}

\* bboxes.extend(e.bounding_boxes[:2]) over the events: how many boxes are collected
RECURSIVE collected_boxes(_)
collected_boxes(evs) ==
    IF evs = <<>> THEN 0 ELSE Min(2, Head(evs).boxes) + collected_boxes(Tail(evs))

\* AfterHoursChecker._make_intrusion_event; zones.base is on the worker's import
\* path, so the import inside succeeds
make_intrusion_event(evs, zone) ==
    [event_type |-> "after_hours_intrusion",
     confidence |-> INTRUSION_CONFIDENCE,
     boxes |-> Min(4, collected_boxes(evs)),
     after_hours |-> "true",
     triggered_by |-> [i \in DOMAIN evs |-> evs[i].event_type]]

\* AfterHoursChecker.filter(events, zone, timestamp): the list it returns (the
\* list it was given, changed in place)
filter(evs, zone, ts) ==
    LET after_hours == is_after_hours(ts)
        tagged == [i \in DOMAIN evs |->
                     [evs[i] EXCEPT !.after_hours = IF after_hours THEN "true"
                                                    ELSE "false",
                                    !.confidence = IF after_hours THEN escalate(@)
                                                   ELSE @]]
        has_person_event ==
            \E i \in DOMAIN tagged :
                tagged[i].event_type \notin {"vehicle_detected",
                                             "license_plate_detected"}
    IN IF /\ after_hours
          /\ zone \in RESTRICTED_ZONES_AFTER_HOURS
          /\ (has_person_event \/ any_persons_in_events(tagged))
       THEN Append(tagged, make_intrusion_event(tagged, zone))
       ELSE tagged

MaxPasses == 2          \* times one list is passed through filter

MaxListLen == 2         \* events in the list handed to filter

\* clock readings around the two ends of the school day
AfterHoursTimestamps == {26999, 27000, 61200, 61201}

\* a DetectionEvent as a zone processor hands it over: no after_hours flag yet
ZoneEvents ==
    [event_type : {"fight", "vehicle_detected", "fire_smoke_detected"},
     confidence : {40, 100},
     boxes : {1, 3}, after_hours : {"unset"}, triggered_by : {<<>>}]

RECURSIVE EventLists(_)
EventLists(n) ==
    IF n = 0 THEN {<<>>}
    ELSE EventLists(n - 1)
         \cup {Append(l, e) : l \in {x \in EventLists(n - 1) : Len(x) = n - 1},
                              e \in ZoneEvents}

\* the filter has not run yet on list l
NewAfterHours(zone, ts, l) ==
    [zone |-> zone, timestamp |-> ts, given |-> l, events |-> l, passes |-> 0,
     once |-> <<>>]

-----------------------------------------------------------------------------
(* backend/worker/detectors.py: WeaponDetector *)

WEAPON_CLASS_MAP == [c \in 0 .. 3 |-> <<"gun", "knife", "blade", "scissors">>[c + 1]]

GUN_CLASS_MAP == [c \in {0} |-> "gun"]

MAX_CONSECUTIVE_FAILURES == 3

MAX_BOX_AREA_RATIO == 40            \* 0.40

MIN_CONFIDENCE_THRESHOLD == 30      \* 0.30

MAX_WEAPONS_PER_FRAME == 3

WEAPON_CONFIG_THRESHOLD == 45       \* SHARED_MODEL_CONFIGS["weapon"].confidence_threshold

IOU_OVERLAP == 30                   \* "iou > 0.3"

\* (x2 - x1) * (y2 - y1)
box_area(b) == (b[3] - b[1]) * (b[4] - b[2])

\* variant of _run_model that keeps boxes of any size
run_model_any_area(model, results, class_map, conf_thresh, max_box_area) ==
    SelectSeq([i \in DOMAIN results |->
                 [class_name |-> IF results[i].cls \in DOMAIN class_map
                                 THEN class_map[results[i].cls] ELSE "",
                  confidence |-> results[i].conf, bbox |-> results[i].xyxy,
                  class_id |-> results[i].cls, model |-> model]],
              LAMBDA d : d.class_name # "" /\ ~(d.confidence < conf_thresh))

\* WeaponDetector._run_model: results is what the model returned for the frame;
\* max_box_area is in hundredths of a pixel.  The model field is not in the
\* returned dicts: it records which model produced the detection.
run_model(model, results, class_map, conf_thresh, max_box_area) ==
    SelectSeq([i \in DOMAIN results |->
                 [class_name |-> IF results[i].cls \in DOMAIN class_map
                                 THEN class_map[results[i].cls] ELSE "",
                  confidence |-> results[i].conf, bbox |-> results[i].xyxy,
                  class_id |-> results[i].cls, model |-> model]],
              LAMBDA d : /\ d.class_name # ""
                         /\ ~(d.confidence < conf_thresh)
                         /\ ~(box_area(d.bbox) * 100 > max_box_area))

\* WeaponDetector._compute_iou(box1, box2) > 0.3
iou_overlaps(box1, box2) ==
    LET inter_xmin == Max(box1[1], box2[1])
        inter_ymin == Max(box1[2], box2[2])
        inter_xmax == Min(box1[3], box2[3])
        inter_ymax == Min(box1[4], box2[4])
        inter_area == (inter_xmax - inter_xmin) * (inter_ymax - inter_ymin)
        union_area == box_area(box1) + box_area(box2) - inter_area
    IN IF inter_xmax < inter_xmin \/ inter_ymax < inter_ymin THEN FALSE
       ELSE union_area > 0 /\ inter_area * 100 > IOU_OVERLAP * union_area

\* list.sort(key=confidence, reverse=True): stable, highest confidence first
RECURSIVE sort_by_confidence(_)
sort_by_confidence(dets) ==
    IF dets = <<>> THEN <<>>
    ELSE LET n    == Len(dets)
             last == dets[n]
             init == sort_by_confidence(SubSeq(dets, 1, n - 1))
         IN SelectSeq(init, LAMBDA d : d.confidence >= last.confidence)
            \o <<last>>
            \o SelectSeq(init, LAMBDA d : d.confidence < last.confidence)

\* the class names of dets in order of first appearance (by_class's key order)
RECURSIVE class_order(_, _)
class_order(dets, acc) ==
    IF dets = <<>> THEN acc
    ELSE class_order(Tail(dets),
                     IF \E i \in DOMAIN acc : acc[i] = Head(dets).class_name
                     THEN acc ELSE Append(acc, Head(dets).class_name))

\* the inner loop of _deduplicate_detections over one class's sorted detections
RECURSIVE keep_distinct(_, _)
keep_distinct(dets, dedup) ==
    IF dets = <<>> THEN dedup
    ELSE LET det == Head(dets)
             overlaps == \E i \in DOMAIN dedup :
                            /\ dedup[i].class_name = det.class_name
                            /\ iou_overlaps(det.bbox, dedup[i].bbox)
         IN keep_distinct(Tail(dets), IF overlaps THEN dedup ELSE Append(dedup, det))

RECURSIVE dedup_classes(_, _, _)
dedup_classes(classes, dets, dedup) ==
    IF classes = <<>> THEN dedup
    ELSE dedup_classes(
             Tail(classes), dets,
             keep_distinct(
                 sort_by_confidence(
                     SelectSeq(dets, LAMBDA d : d.class_name = Head(classes))),
                 dedup))

\* WeaponDetector._deduplicate_detections
deduplicate_detections(dets) ==
    dedup_classes(class_order(dets, <<>>), dets, <<>>)

\* variant of the except branch that disables one failure late
inference_failed_late(wd) ==
    [wd EXCEPT !.consecutive_failures = @ + 1,
               !.disabled = (wd.consecutive_failures + 1 > MAX_CONSECUTIVE_FAILURES)]

\* the except branch of detect: count the failure, disable at the limit
inference_failed(wd) ==
    [wd EXCEPT !.consecutive_failures = @ + 1,
               !.disabled = (wd.consecutive_failures + 1 >= MAX_CONSECUTIVE_FAILURES)]

\* WeaponDetector.detect(frame).  frame_area is frame_h * frame_w; weapon_results
\* and gun_results are what the two models return for the frame; raises tells
\* whether inference throws.  invoked tells whether the try block (the model
\* calls) was entered.
detect(wd, frame_area, weapon_results, gun_results, raises) ==
    IF wd.disabled THEN [wd |-> wd, out |-> <<>>, invoked |-> FALSE]
    ELSE IF ~wd.weapon_model /\ ~wd.gun_model
    THEN [wd |-> wd, out |-> <<>>, invoked |-> FALSE]
    ELSE IF raises
    THEN [wd |-> inference_failed(wd), out |-> <<>>, invoked |-> TRUE]
    ELSE LET conf_thresh  == Max(WEAPON_CONFIG_THRESHOLD, MIN_CONFIDENCE_THRESHOLD)
             max_box_area == frame_area * MAX_BOX_AREA_RATIO
             from_weapon  == IF wd.weapon_model
                             THEN run_model("weapon_model", weapon_results,
                                            WEAPON_CLASS_MAP, conf_thresh,
                                            max_box_area)
                             ELSE <<>>
             from_gun     == IF wd.gun_model
                             THEN run_model("gun_model", gun_results,
                                            GUN_CLASS_MAP, conf_thresh,
                                            max_box_area)
                             ELSE <<>>
             detections   == deduplicate_detections(from_weapon \o from_gun)
             capped       == IF Len(detections) > MAX_WEAPONS_PER_FRAME
                             THEN SubSeq(sort_by_confidence(detections), 1,
                                         MAX_WEAPONS_PER_FRAME)
                             ELSE detections
         IN [wd |-> [wd EXCEPT !.consecutive_failures = 0], out |-> capped,
             invoked |-> TRUE]

\* WeaponDetector.reset
weapon_reset(wd) == [wd EXCEPT !.disabled = FALSE, !.consecutive_failures = 0]

\* WeaponDetector.__init__ with the models the registry could load
NewWeaponDetector(weapon_model, gun_model) ==
    [weapon_model |-> weapon_model, gun_model |-> gun_model,
     consecutive_failures |-> 0, disabled |-> FALSE]

\* What the last call was and how it went: op is "detect" or "reset" ("" before
\* any call), was_disabled the value of _disabled when it was made, invoked
\* whether it entered the model calls, and streak the number of inference
\* exceptions since the last successful detect, reset or construction
NoDetectCall == [op |-> "", was_disabled |-> FALSE, invoked |-> FALSE, streak |-> 0]

detect_call(call, wd, invoked, raises) ==
    [op |-> "detect", was_disabled |-> wd.disabled, invoked |-> invoked,
     streak |-> IF ~invoked THEN call.streak
                ELSE IF raises THEN call.streak + 1 ELSE 0]

reset_call(call, wd) ==
    [op |-> "reset", was_disabled |-> wd.disabled, invoked |-> FALSE, streak |-> 0]

\* --- frames and model outputs ---------------------------------------------------

\* frame_h * frame_w of a 10 x 10 and of an 8 x 10 frame
FrameAreas == {100, 80}

\* raw boxes: areas 4, 6, 40 (40 % of the larger frame), 42, 4; 4 is no class id
WeaponRaw ==
    {[cls |-> 0, conf |-> 50, xyxy |-> <<0, 0, 2, 2>>],
     [cls |-> 0, conf |-> 70, xyxy |-> <<0, 0, 2, 3>>],
     [cls |-> 1, conf |-> 60, xyxy |-> <<0, 0, 5, 8>>],
     [cls |-> 2, conf |-> 90, xyxy |-> <<0, 0, 6, 7>>],
     [cls |-> 3, conf |-> 40, xyxy |-> <<5, 5, 7, 7>>],
     [cls |-> 4, conf |-> 99, xyxy |-> <<0, 0, 2, 2>>]}

\* raw boxes: areas 100, 40, 32 (40 % of the smaller frame), 4
GunRaw ==
    {[cls |-> 0, conf |-> 95, xyxy |-> <<0, 0, 10, 10>>],
     [cls |-> 0, conf |-> 65, xyxy |-> <<0, 0, 5, 8>>],
     [cls |-> 0, conf |-> 80, xyxy |-> <<0, 0, 4, 8>>],
     [cls |-> 0, conf |-> 55, xyxy |-> <<5, 5, 7, 7>>]}

\* a frame crowded with weapons of every class
CrowdedResults ==
    <<[cls |-> 0, conf |-> 50, xyxy |-> <<0, 0, 2, 2>>],
      [cls |-> 0, conf |-> 70, xyxy |-> <<0, 0, 2, 3>>],
      [cls |-> 2, conf |-> 60, xyxy |-> <<0, 0, 5, 8>>],
      [cls |-> 3, conf |-> 80, xyxy |-> <<5, 5, 7, 7>>]>>

MaxWeaponBoxes == 2         \* boxes the weapon model reports on an ordinary frame

RECURSIVE RawLists(_, _)
RawLists(raws, n) ==
    IF n = 0 THEN {<<>>}
    ELSE RawLists(raws, n - 1)
         \cup {Append(l, r) : l \in {x \in RawLists(raws, n - 1) : Len(x) = n - 1},
                              r \in raws}

WeaponResults == RawLists(WeaponRaw, MaxWeaponBoxes) \cup {CrowdedResults}

GunResults == RawLists(GunRaw, 1)

-----------------------------------------------------------------------------
(* backend/worker/reid.py: PersonGallery *)
(* An embedding is a unit vector; the model keeps its direction, an angle  *)
(* in steps of 5 degrees between 0 and 90 (histogram embeddings have no    *)
(* negative component).  Similarities are in thousandths.                  *)

REID_SIMILARITY_THRESHOLD == 650    \* 0.65

REID_GALLERY_TTL == 120             \* seconds

MaxGalleryIds == 3                  \* ids the gallery may hand out in one run

GalleryHorizon == 122               \* the clock stops this far after the start

GalleryIds == 1 .. MaxGalleryIds

Angles == 0 .. 18

\* 1000 * cos(5 d degrees), d = 0..18
Cosine ==
    <<1000, 996, 985, 966, 940, 906, 866, 819, 766, 707, 643, 574, 500, 423, 342,
      259, 174, 87, 0>>

\* np.dot(a, b) of two unit vectors
dot(a, b) == Cosine[(IF a >= b THEN a - b ELSE b - a) + 1]

\* how far 0.3 * embedding + 0.7 * entry, normalised, lies from entry towards
\* embedding when they are d steps apart: atan2(0.3 sin, 0.7 + 0.3 cos), rounded
\* to the nearest step
EmaShift == <<0, 0, 1, 1, 1, 1, 2, 2, 2, 3, 3, 3, 3, 4, 4, 4, 4, 4, 5>>

\* the exponential moving average of the entry's embedding, re-normalised
ema(entry_embedding, embedding) ==
    IF embedding >= entry_embedding
    THEN entry_embedding + EmaShift[embedding - entry_embedding + 1]
    ELSE entry_embedding - EmaShift[entry_embedding - embedding + 1]

\* a global id that is not a key of _gallery
NoPerson == [present |-> FALSE, embedding |-> 0, camera_ids |-> {}, last_seen |-> 0]

\* PersonGallery.__init__
NewGallery == [next_id |-> 1, entries |-> [i \in GalleryIds |-> NoPerson]]

\* variant of _expire that lets an entry live one TTL longer
expire_late(g, t) ==
    [g EXCEPT !.entries =
        [i \in GalleryIds |->
            IF g.entries[i].present /\ t - g.entries[i].last_seen > 2 * REID_GALLERY_TTL
            THEN NoPerson ELSE g.entries[i]]]

\* PersonGallery._expire at clock t
expire(g, t) ==
    [g EXCEPT !.entries =
        [i \in GalleryIds |->
            IF g.entries[i].present /\ t - g.entries[i].last_seen > REID_GALLERY_TTL
            THEN NoPerson ELSE g.entries[i]]]

\* the loop "if sim > best_sim" over the gallery in insertion (= id) order,
\* best_sim starting at 0.0: the first id with the highest similarity, if that
\* is above 0
best_match(g, embedding) ==
    LET live == {i \in GalleryIds : g.entries[i].present}
        sim(i) == dot(embedding, g.entries[i].embedding)
        top == {i \in live : sim(i) > 0 /\ \A j \in live : sim(j) <= sim(i)}
    IN IF top = {} THEN [id |-> 0, sim |-> 0]
       ELSE LET b == CHOOSE i \in top : \A j \in top : i <= j
            IN [id |-> b, sim |-> sim(b)]

\* PersonGallery.match_or_register(embedding, camera_id) at clock t: the gallery
\* afterwards and the returned (global_person_id, similarity_score)
match_or_register(g, embedding, camera_id, t) ==
    LET g1   == expire(g, t)
        best == best_match(g1, embedding)
    IN IF best.id # 0 /\ best.sim >= REID_SIMILARITY_THRESHOLD
       THEN [g |-> [g1 EXCEPT !.entries[best.id] =
                       [present |-> TRUE,
                        embedding |-> ema(g1.entries[best.id].embedding, embedding),
                        camera_ids |-> g1.entries[best.id].camera_ids \cup {camera_id},
                        last_seen |-> t]],
             id |-> best.id, sim |-> best.sim]
       ELSE [g |-> [next_id |-> g1.next_id + 1,
                    entries |-> [i \in GalleryIds |->
                                   IF i = g1.next_id
                                   THEN [present |-> TRUE, embedding |-> embedding,
                                         camera_ids |-> {camera_id}, last_seen |-> t]
                                   ELSE g1.entries[i]]],
             id |-> g1.next_id, sim |-> 0]

GalleryCameras == {"cam1", "cam2"}

\* embeddings of people who walk in: 0, 30, 35 and 60 degrees
NewFaces == {0, 6, 7, 12}

\* seconds the clock may jump between two calls
GallerySteps == {60, 61}

NoMatchCall == [embedding |-> 0, id |-> 0, sim |-> 0, stale |-> {}, stale_same |-> {},
                live_same |-> {}, live_match |-> FALSE, known |-> {}]

-----------------------------------------------------------------------------
(* Specifications.  Each component has its own; the variables of the other *)
(* components rest at a fixed value.                                       *)

NoObs == [prev |-> [e \in EventTypes |-> NoTime],
          sources |-> [e \in EventTypes |-> {}],
          gap  |-> [e \in EventTypes |-> NoTime]]

ZoneIdle ==
    /\ zp = NewProcessor("outgate")
    /\ focus = "fight"
    /\ events = <<>>
    /\ obs = NoObs

CooldownIdle == cm = NewCooldownManager("mobile_usage")

EngineIdle == eng = NewEngine("fight")

TrackerIdle == trk = NewScene(1, [o \in SceneObjects |-> 0], "moving")

AfterHoursIdle == ahc = NewAfterHours("corridor", SCHOOL_START, <<>>)

WeaponIdle ==
    wpn = [wd |-> NewWeaponDetector(TRUE, TRUE), frame_area |-> 100,
           oversize |-> FALSE, out |-> <<>>, call |-> NoDetectCall]

GalleryIdle == gal = [gallery |-> NewGallery, known |-> {}, call |-> NoMatchCall]

WorkerIdle == wk = [running |-> FALSE]

\* --- zone processors ------------------------------------------------------------

ZoneInit ==
    /\ now = StartClock
    /\ zp \in {NewProcessor(z) : z \in Zones}
    /\ focus \in EventTypes
    /\ events = <<>>
    /\ obs = NoObs
    /\ CooldownIdle /\ EngineIdle /\ TrackerIdle /\ AfterHoursIdle
    /\ WeaponIdle /\ GalleryIdle /\ WorkerIdle

\* One frame through the processor's process_frame at clock reading now
ProcessFrame ==
    \E f \in Frames(focus) :
        \E r \in {process_frame(zp, f, now)} :
           /\ CountersWithin(r.s)
           /\ zp' = r.s
           /\ events' = r.ev
           /\ obs' = Observe(obs, r.ev, now)
           /\ UNCHANGED <<now, focus>>
           /\ UNCHANGED <<cm, eng, trk, ahc, wpn, gal, wk>>

\* The wall clock advances between frames
Tick ==
    /\ now < StartClock + get_event_cooldown(focus) + ClockSlack
    /\ now' = now + 1
    /\ UNCHANGED <<zp, focus, events, obs>>
    /\ UNCHANGED <<cm, eng, trk, ahc, wpn, gal, wk>>

ZoneNext == ProcessFrame \/ Tick

SpecZone == ZoneInit /\ [][ZoneNext]_vars

\* --- EventCooldownManager ---------------------------------------------------------

CooldownInit ==
    /\ now = StartClock
    /\ cm \in {NewCooldownManager(e) : e \in CooldownTypes}
    /\ ZoneIdle /\ EngineIdle /\ TrackerIdle /\ AfterHoursIdle
    /\ WeaponIdle /\ GalleryIdle /\ WorkerIdle

\* _event_cooldown.should_emit(camera_id, event_type, confidence) at clock now
ShouldEmit ==
    \E c \in CooldownCameras, conf \in CooldownConfidences :
        \E r \in {should_emit(cm.state, c, cm.event_type, conf, now)} :
            LET key == <<c, cm.event_type>>
            IN /\ cm' = [cm EXCEPT
                          !.state = r.state,
                          !.call = [camera_id |-> c, confidence |-> conf, t |-> now,
                                    emit |-> r.emit,
                                    before |-> cm.state[key],
                                    after |-> r.state[key],
                                    others_kept |->
                                        \A k \in CooldownKeys \ {key} :
                                            r.state[k] = cm.state[k]]]
               /\ UNCHANGED now
               /\ UNCHANGED <<zp, focus, events, obs, eng, trk, ahc, wpn, gal, wk>>

\* _event_cooldown.reset(camera_id) or reset()
CooldownReset ==
    \E c \in CooldownCameras \cup {""} :
        /\ cm' = [cm EXCEPT !.state = cooldown_reset(cm.state, c)]
        /\ UNCHANGED now
        /\ UNCHANGED <<zp, focus, events, obs, eng, trk, ahc, wpn, gal, wk>>

CooldownTick ==
    /\ now < StartClock + get_cooldown(cm.event_type) + ClockSlack
    /\ now' = now + 1
    /\ UNCHANGED cm
    /\ UNCHANGED <<zp, focus, events, obs, eng, trk, ahc, wpn, gal, wk>>

CooldownNext == ShouldEmit \/ CooldownReset \/ CooldownTick

SpecCooldown == CooldownInit /\ [][CooldownNext]_vars

\* --- event engine --------------------------------------------------------------------

MaxEvents == 3          \* events one run sends to process_event

EngineInit ==
    /\ now = StartClock
    /\ eng \in {NewEngine(e) : e \in EngineTypes}
    /\ ZoneIdle /\ CooldownIdle /\ TrackerIdle /\ AfterHoursIdle
    /\ WeaponIdle /\ GalleryIdle /\ WorkerIdle

\* process_event(event)
ProcessEvent ==
    /\ eng.n < (IF eng.event_type = "fire_smoke" THEN MaxEvents + 1 ELSE MaxEvents)
    /\ \E tenant \in EngineTenants, cam \in EngineCameras,
          type \in {eng.event_type, "weapon_detected"},
          ts \in TimestampsOf(eng.event_type),
          conf \in ConfidencesOf(eng.event_type) :
          LET event == [tenant_id |-> tenant, camera_id |-> cam,
                        event_type |-> type,
                        timestamp |-> ts, confidence |-> conf]
          IN \E r \in {process_event(eng.recent, event)},
                keys \in {created_keys(eng.keys, event)} :
                eng' = [eng EXCEPT !.recent = r.recent, !.result = r.result,
                                   !.keys = keys,
                                   !.n = @ + 1,
                                   !.type = type,
                                   !.ts = ts,
                                   !.in_order = (@ /\ (eng.n = 0 \/ ts >= eng.ts)),
                                   !.confidence = conf,
                                   !.kept = (r.recent = eng.recent /\ keys = eng.keys),
                                   !.scenario = scenario_step(eng.scenario,
                                                              eng.recent, event)]
    /\ UNCHANGED now
    /\ UNCHANGED <<zp, focus, events, obs, cm, trk, ahc, wpn, gal, wk>>

EngineNext == ProcessEvent

SpecEngine == EngineInit /\ [][EngineNext]_vars

\* --- SimpleTracker ----------------------------------------------------------------

TrackerInit ==
    /\ now = StartClock
    /\ trk \in {NewScene(n, <<0, x>>, script) :
                  n \in SceneObjects, x \in Cells, script \in {"moving", "blinking"}}
    /\ trk.n = 1 => trk.pos[2] = 0
    /\ trk.n = 2 => trk.pos[2] \in {100, 100 * MaxCell}
    /\ ZoneIdle /\ CooldownIdle /\ EngineIdle /\ AfterHoursIdle
    /\ WeaponIdle /\ GalleryIdle /\ WorkerIdle

\* What an observer of the frame notes next to the tracker t1 that update left:
\* which id every visible object came back under, whether the run is still calm
\* (every object on every frame, no move above 100 px; "apart" while in addition
\* every new centre is more than 100 px from every other object's previous one),
\* how many updates in a row each id went without a detection, which ids are
\* new, and which objects came back where they stood after their id was dropped;
\* and, over the tracker's whole life, which id was registered for which object
\* (ever), how many registrations it made (handed), how often it was reset, and
\* the class each id was registered with since the last reset (born).
Watch(s, t1, visible, mv, pos1) ==
    LET objs    == 1 .. s.n
        before  == {i \in TrackerIds : s.tracker.objects[i].present}
        got     == [o \in SceneObjects |-> IF o \in visible THEN id_of(t1, o) ELSE NoId]
        given   == {got[o] : o \in visible}
        broken  == visible # objs \/ \E o \in objs : hypot(mv[o], 0) > 100
        close   == \E o \in objs, p \in objs :
                       o # p /\ hypot(pos1[o], s.pos[p]) <= 100
        back    == {o \in visible : /\ mv[o] = 0
                                    /\ s.held[o] # NoId
                                    /\ s.held[o] \notin before}
    IN [tracker |-> t1, n |-> s.n, pos |-> pos1, script |-> s.script,
        moved |-> s.moved \/ \E o \in objs : s.held[o] # NoId /\ hypot(mv[o], 0) = 100,
        first |-> [o \in SceneObjects |->
                     IF s.first[o] = NoId THEN got[o] ELSE s.first[o]],
        held  |-> [o \in SceneObjects |-> IF o \in visible THEN got[o] ELSE s.held[o]],
        last  |-> got,
        calm  |-> IF s.calm = "broken" \/ broken THEN "broken"
                  ELSE IF s.calm = "close" \/ close THEN "close"
                  ELSE "apart",
        misses |-> [i \in TrackerIds |->
                      IF i \in given THEN 0
                      ELSE IF i \in s.seen \cup s.fresh
                      THEN Min(s.misses[i] + 1, 11)
                      ELSE 0],
        seen  |-> s.seen \cup s.fresh,
        fresh |-> given \ before,
        reappeared |-> back,
        near  |-> {o \in back : \E i \in before :
                      hypot(s.tracker.objects[i].centroid, pos1[o]) <= 100},
        ever  |-> s.ever \cup {<<i, t1.objects[i].tag>> : i \in given \ before},
        handed |-> s.handed + Cardinality(given \ before),
        resets |-> s.resets,
        born  |-> [i \in TrackerIds |->
                     IF i \in given \ before THEN t1.objects[i].class_name
                     ELSE s.born[i]]]

\* One frame: the objects move (no two onto the same centre), some are detected,
\* SimpleTracker.update runs.  A "moving" scene shows every object on every frame
\* and is followed up to the first frame on which two objects come within 100 px
\* of each other's previous centre or one jumps further than that; a "blinking"
\* scene keeps the objects in place and hides any of them on any frame.
ShowFrame ==
    \E visible \in SUBSET (1 .. trk.n), mv \in [SceneObjects -> Moves] :
        /\ \A o \in SceneObjects :
              /\ o \notin visible => mv[o] = 0
              /\ trk.pos[o] + mv[o] \in Cells
        /\ trk.n = 1 => mv[2] = 0
        /\ trk.n = 2 => trk.pos[1] + mv[1] # trk.pos[2] + mv[2]
        /\ trk.script = "moving" => visible = 1 .. trk.n /\ trk.calm = "apart"
        /\ trk.script = "blinking" => \A o \in SceneObjects : mv[o] = 0
        /\ LET pos1 == [o \in SceneObjects |-> trk.pos[o] + mv[o]]
           IN \E t1 \in update(trk.tracker,
                               detections_of(visible, pos1, visible)) :
                 /\ t1.next_id <= MaxIds
                 /\ trk' = Watch(trk, t1, visible, mv, pos1)
                 /\ trk'.handed <= MaxIds
        /\ UNCHANGED now
        /\ UNCHANGED <<zp, focus, events, obs, cm, eng, ahc, wpn, gal, wk>>

MaxResets == 1          \* reset_tracker calls in one run

\* TrackerRegistry.reset_tracker(camera_id), which calls SimpleTracker.reset():
\* the observer starts over as well, but for what it keeps over the tracker's life
TrackerReset ==
    /\ trk.tracker # NewTracker
    /\ trk.resets < MaxResets
    /\ trk' = [NewScene(trk.n, trk.pos, trk.script)
                  EXCEPT !.tracker = tracker_reset(trk.tracker),
                         !.ever = trk.ever,
                         !.handed = trk.handed,
                         !.resets = trk.resets + 1]
    /\ UNCHANGED now
    /\ UNCHANGED <<zp, focus, events, obs, cm, eng, ahc, wpn, gal, wk>>

TrackerNext == ShowFrame \/ TrackerReset

SpecTracker == TrackerInit /\ [][TrackerNext]_vars

\* --- AfterHoursChecker ------------------------------------------------------------

AfterHoursInit ==
    /\ now = StartClock
    /\ ahc \in {NewAfterHours(z, ts, l) :
                  z \in Zones, ts \in AfterHoursTimestamps, l \in EventLists(MaxListLen)}
    /\ ZoneIdle /\ CooldownIdle /\ EngineIdle /\ TrackerIdle
    /\ WeaponIdle /\ GalleryIdle /\ WorkerIdle

\* after_hours_checker.filter(events, zone, timestamp) on the list as it stands
Filter ==
    /\ ahc.passes < MaxPasses
    /\ \E r \in {filter(ahc.events, ahc.zone, ahc.timestamp)} :
          ahc' = [ahc EXCEPT !.events = r,
                             !.passes = @ + 1,
                             !.once = IF ahc.passes = 0 THEN r ELSE @]
    /\ UNCHANGED now
    /\ UNCHANGED <<zp, focus, events, obs, cm, eng, trk, wpn, gal, wk>>

AfterHoursNext == Filter

SpecAfterHours == AfterHoursInit /\ [][AfterHoursNext]_vars

\* --- WeaponDetector ---------------------------------------------------------------

WeaponInit ==
    /\ now = StartClock
    /\ wpn \in {[wd |-> NewWeaponDetector(w, g), frame_area |-> 100,
                 oversize |-> FALSE, out |-> <<>>, call |-> NoDetectCall] :
                   w \in BOOLEAN, g \in BOOLEAN}
    /\ ZoneIdle /\ CooldownIdle /\ EngineIdle /\ TrackerIdle
    /\ AfterHoursIdle /\ GalleryIdle /\ WorkerIdle

\* weapon_detector.detect(frame); oversize notes whether a loaded model reported
\* a box above 40 % of the frame
Detect ==
    /\ \E fa \in FrameAreas, wr \in WeaponResults, gr \in GunResults,
          raises \in BOOLEAN :
          \E r \in {detect(wpn.wd, fa, wr, gr, raises)} :
              wpn' = [wd |-> r.wd, frame_area |-> fa, out |-> r.out,
                      call |-> detect_call(wpn.call, wpn.wd, r.invoked, raises),
                      oversize |->
                          \/ /\ wpn.wd.weapon_model
                             /\ \E i \in DOMAIN wr : box_area(wr[i].xyxy) * 100 > fa * 40
                          \/ /\ wpn.wd.gun_model
                             /\ \E i \in DOMAIN gr : box_area(gr[i].xyxy) * 100 > fa * 40]
    /\ UNCHANGED now
    /\ UNCHANGED <<zp, focus, events, obs, cm, eng, trk, ahc, gal, wk>>

\* weapon_detector.reset()
WeaponReset ==
    /\ wpn.wd.disabled \/ wpn.wd.consecutive_failures > 0
    /\ wpn' = [wpn EXCEPT !.wd = weapon_reset(@),
                          !.call = reset_call(@, wpn.wd)]
    /\ UNCHANGED now
    /\ UNCHANGED <<zp, focus, events, obs, cm, eng, trk, ahc, gal, wk>>

WeaponNext == Detect \/ WeaponReset

SpecWeapon == WeaponInit /\ [][WeaponNext]_vars

\* --- PersonGallery ----------------------------------------------------------------

GalleryInit ==
    /\ now = StartClock
    /\ gal = [gallery |-> NewGallery, known |-> {}, call |-> NoMatchCall]
    /\ ZoneIdle /\ CooldownIdle /\ EngineIdle /\ TrackerIdle
    /\ AfterHoursIdle /\ WeaponIdle /\ WorkerIdle

\* gallery.match_or_register(embedding, camera_id) at clock now, for a new face or
\* for the exact embedding of a gallery entry.  call notes, from the gallery as
\* it stood: the entries last seen more than 120 s ago, those of them and of the
\* others that equal the embedding, and whether one of the others reaches 0.65.
MatchOrRegister ==
    /\ \E e \in NewFaces \cup {gal.gallery.entries[i].embedding :
                                i \in {j \in GalleryIds : gal.gallery.entries[j].present}},
          c \in GalleryCameras :
          \E r \in {match_or_register(gal.gallery, e, c, now)} :
              LET held  == {i \in GalleryIds : gal.gallery.entries[i].present}
                  stale == {i \in held : now - gal.gallery.entries[i].last_seen > 120}
                  same  == {i \in held : gal.gallery.entries[i].embedding = e}
              IN /\ r.g.next_id <= MaxGalleryIds + 1
                 /\ gal' = [gallery |-> r.g,
                            known |-> gal.known \cup {r.id},
                            call |-> [embedding |-> e, id |-> r.id, sim |-> r.sim,
                                      stale |-> stale,
                                      stale_same |-> stale \cap same,
                                      live_same |-> same \ stale,
                                      live_match |->
                                          \E i \in held \ stale :
                                              dot(e, gal.gallery.entries[i].embedding)
                                                  >= 650,
                                      known |-> gal.known]]
    /\ UNCHANGED now
    /\ UNCHANGED <<zp, focus, events, obs, cm, eng, trk, ahc, wpn, wk>>

GalleryTick ==
    /\ \E d \in GallerySteps :
          /\ now + d <= StartClock + GalleryHorizon
          /\ now' = now + d
    /\ UNCHANGED gal
    /\ UNCHANGED <<zp, focus, events, obs, cm, eng, trk, ahc, wpn, wk>>

GalleryNext == MatchOrRegister \/ GalleryTick

SpecGallery == GalleryInit /\ [][GalleryNext]_vars


\* --- _update_suspicion called directly ------------------------------------------

\* the increments the detectors pass for an event type (decay is always the default)
IncrementsOf(e) ==
    CASE e \in {"weapon_detected"}       -> {WEAPON_INCREMENT}
      [] e = "fire_smoke_detected"       -> {FIRE_SMOKE_INCREMENT}
      [] e = "vehicle_detected"          -> {VEHICLE_INCREMENT}
      [] e = "fight"                     -> {FIGHT_INCREMENT}
      [] e = "fall_detected"             -> {FALL_INCREMENT}
      [] e = "crowd_formation"           -> {CROWD_INCREMENT}
      [] e = "mobile_usage"              -> {MOBILE_INCREMENT, DEFAULT_INCREMENT}
      [] e = "gate_accident"             -> {SUSPICION_INCREMENT_WEAK,
                                             SUSPICION_INCREMENT_MODERATE,
                                             SUSPICION_INCREMENT_STRONG}

\* longest run of detected=true calls that is followed from a fresh processor
MaxStreak == 14

\* What a caller of _update_suspicion notes: the arguments and the score before
\* the latest call, and k, the number of calls so far while all of them, from the
\* fresh processor on, were detected=true with the increment inc0 (-1 after that).
NoUpdate ==
    [called |-> FALSE, detected |-> FALSE, increment |-> 0, decay |-> 0,
     before |-> 0, k |-> 0, inc0 |-> 0]

SuspicionInit ==
    /\ now = StartClock
    /\ zp = NewProcessor("outgate")
    /\ focus \in EventTypes
    /\ events = <<>>
    /\ obs = NoUpdate
    /\ CooldownIdle /\ EngineIdle /\ TrackerIdle /\ AfterHoursIdle
    /\ WeaponIdle /\ GalleryIdle /\ WorkerIdle

\* self._update_suspicion(focus, detected, increment, decay)
UpdateSuspicion ==
    \E detected \in BOOLEAN, increment \in IncrementsOf(focus) :
        LET streak == /\ detected
                      /\ obs.k >= 0
                      /\ (obs.k = 0 \/ obs.inc0 = increment)
        IN /\ streak => obs.k < MaxStreak
           /\ zp' = update_suspicion(zp, focus, detected, increment, DEFAULT_DECAY)
           /\ obs' = [called |-> TRUE, detected |-> detected,
                      increment |-> increment, decay |-> DEFAULT_DECAY,
                      before |-> zp.suspicion_scores[focus],
                      k |-> IF streak THEN obs.k + 1 ELSE 0 - 1,
                      inc0 |-> IF streak THEN increment ELSE obs.inc0]
           /\ UNCHANGED <<now, focus, events>>
           /\ UNCHANGED <<cm, eng, trk, ahc, wpn, gal, wk>>

SuspicionNext == UpdateSuspicion

SpecSuspicion == SuspicionInit /\ [][SuspicionNext]_vars

\* --- the frame counters behind the min-frames gates ---------------------------------

\* the counters: _weapon_frame_count, _coco_weapon_frames, _fire_smoke_frame_count,
\* _fight_frame_count, _fall_frame_count, _accident_frame_count and the temporal
\* buffer's event_counters["vehicle_detected"]
CounterNames ==
    {"weapon", "coco_weapon", "fire_smoke", "fight", "fall", "gate_accident",
     "vehicle"}

\* the event type a counter gates
GatedType(c) ==
    CASE c \in {"weapon", "coco_weapon"} -> "weapon_detected"
      [] c = "fire_smoke"                -> "fire_smoke_detected"
      [] c = "fight"                     -> "fight"
      [] c = "fall"                      -> "fall_detected"
      [] c = "gate_accident"             -> "gate_accident"
      [] c = "vehicle"                   -> "vehicle_detected"

\* the value a counter holds (event_counters: a missing key counts as 0)
frame_counter(s, c) ==
    CASE c = "weapon"        -> s.weapon_frame_count
      [] c = "coco_weapon"   -> s.coco_weapon_frames
      [] c = "fire_smoke"    -> s.fire_smoke_frame_count
      [] c = "fight"         -> s.fight_frame_count
      [] c = "fall"          -> s.fall_frame_count
      [] c = "gate_accident" -> s.accident_frame_count
      [] c = "vehicle"       -> Max(0, s.event_counters["vehicle_detected"])

\* a frame qualifies for a counter when it carries the evidence the counter's
\* detector counts: a detection at or above the confidence threshold, a fight or
\* fall candidate among the persons, a vehicle-person pair with an accident signal
qualifies(z, f, c) ==
    CASE c = "weapon"        -> \E w \in f.weapons : w >= WeaponConfidenceByZone[z]
      [] c = "coco_weapon"   -> \E w \in f.coco_weapons : w >= COCO_WEAPON_CONFIDENCE
      [] c = "fire_smoke"    -> \E w \in f.fire_smoke :
                                    w >= FIRE_SMOKE_CONFIDENCE_THRESHOLD
      [] c = "fight"         -> f.persons >= 2 /\ f.fight.mode # "none"
      [] c = "fall"          -> f.persons > 0 /\ f.fall # 0
      [] c = "gate_accident" -> /\ f.persons > 0 /\ f.vehicles # {}
                                /\ f.accident.increment > 0
                                /\ f.accident.confidence >= ACCIDENT_MIN_AVG_CONFIDENCE
      [] c = "vehicle"       -> \E w \in f.vehicles : w >= VEHICLE_CONFIDENCE_THRESHOLD

\* the counters a zone's process_frame keeps
CountersOf(z) ==
    CASE z = "outgate"       -> {"vehicle", "gate_accident"}
      [] z = "school_ground" -> {"weapon", "coco_weapon", "fire_smoke", "fight", "fall"}
      [] z \in {"corridor", "classroom"} -> {"weapon", "fire_smoke", "fight"}

\* What an observer of the counters notes on a frame: which counters the frame
\* qualified for and the values they held before it
NoCount ==
    [acted |-> FALSE,
     qualifying |-> [c \in CounterNames |-> FALSE],
     before |-> [c \in CounterNames |-> 0]]

CountersInit ==
    /\ now = StartClock
    /\ zp \in {NewProcessor(z) : z \in Zones}
    /\ focus \in {GatedType(c) : c \in CountersOf(zp.zone_name)}
    /\ events = <<>>
    /\ obs = NoCount
    /\ CooldownIdle /\ EngineIdle /\ TrackerIdle /\ AfterHoursIdle
    /\ WeaponIdle /\ GalleryIdle /\ WorkerIdle

\* One frame through process_frame, the counters read before and after
CountFrame ==
    \E f \in Frames(focus) :
        \E r \in {process_frame(zp, f, now)} :
           /\ CountersWithin(r.s)
           /\ zp' = r.s
           /\ events' = r.ev
           /\ obs' = [acted |-> TRUE,
                      qualifying |-> [c \in CounterNames |->
                                        /\ c \in CountersOf(zp.zone_name)
                                        /\ qualifies(zp.zone_name, f, c)],
                      before |-> [c \in CounterNames |-> frame_counter(zp, c)]]
           /\ UNCHANGED <<now, focus>>
           /\ UNCHANGED <<cm, eng, trk, ahc, wpn, gal, wk>>

\* The wall clock moves on by the focus type's cooldown: frames come either within
\* the cooldown of the latest event or after it
CountersTick ==
    /\ now < StartClock + get_event_cooldown(focus) + ClockSlack
    /\ now' = now + get_event_cooldown(focus)
    /\ UNCHANGED <<zp, focus, events, obs>>
    /\ UNCHANGED <<cm, eng, trk, ahc, wpn, gal, wk>>

CountersNext == CountFrame \/ CountersTick

SpecCounters == CountersInit /\ [][CountersNext]_vars
-----------------------------------------------------------------------------
(* EventCooldownManager: the cooldown applied to each event type *)

\* every type of EVENT_TYPE_COOLDOWNS and one the table does not list
TableTypes == DOMAIN EVENT_TYPE_COOLDOWNS \cup {"after_hours_intrusion"}

TableCamera == "cam1"

\* one confidence for every event, so that the confidence bypass never applies
TableConfidence == 50

\* EventCooldownManager() (default_cooldown = EVENT_COOLDOWN_SECONDS), asked
\* about one camera and one event type
CooldownTableInit ==
    /\ now = StartClock
    /\ cm \in {[event_type |-> e,
                state |-> [k \in {<<TableCamera, e>>} |-> NoEntry],
                call |-> NoCall] : e \in TableTypes}
    /\ ZoneIdle /\ EngineIdle /\ TrackerIdle /\ AfterHoursIdle
    /\ WeaponIdle /\ GalleryIdle /\ WorkerIdle

\* _event_cooldown.should_emit(camera_id, event_type, confidence) at clock now
AskShouldEmit ==
    \E r \in {should_emit(cm.state, TableCamera, cm.event_type,
                          TableConfidence, now)} :
        LET key == <<TableCamera, cm.event_type>>
        IN /\ cm' = [cm EXCEPT
                      !.state = r.state,
                      !.call = [camera_id |-> TableCamera,
                                confidence |-> TableConfidence, t |-> now,
                                emit |-> r.emit,
                                before |-> cm.state[key],
                                after |-> r.state[key],
                                others_kept |-> TRUE]]
           /\ UNCHANGED now
           /\ UNCHANGED <<zp, focus, events, obs, eng, trk, ahc, wpn, gal, wk>>

CooldownTableNext == AskShouldEmit \/ CooldownTick

SpecCooldownTable == CooldownTableInit /\ [][CooldownTableNext]_vars

\* --- TemporalBuffer's event counters, called method by method ---------------------

\* What an observer of the buffer notes: the latest call, whether reset_event was
\* ever called, and the time of the latest step of the counter from 0 (or from no
\* counter) to 1
NoBufferCall == [op |-> "none", was_reset |-> FALSE, since |-> NoTime]

BufferInit ==
    /\ now = StartClock
    /\ zp = NewProcessor("outgate")
    /\ focus \in {"vehicle_detected", "crowd_formation", "mobile_usage"}
    /\ events = <<>>
    /\ obs = NoBufferCall
    /\ CooldownIdle /\ EngineIdle /\ TrackerIdle /\ AfterHoursIdle
    /\ WeaponIdle /\ GalleryIdle /\ WorkerIdle

\* temporal_buffer.increment_event(focus)
IncrementEvent ==
    /\ zp.event_counters[focus] < MaxFrameCount
    /\ zp' = increment_event(zp, focus, now)
    /\ obs' = [obs EXCEPT !.op = "increment",
                          !.since = IF zp.event_counters[focus] <= 0
                                    THEN now ELSE @]
    /\ UNCHANGED <<now, focus, events>>
    /\ UNCHANGED <<cm, eng, trk, ahc, wpn, gal, wk>>

\* temporal_buffer.reset_event(focus)
ResetEvent ==
    /\ zp' = reset_event(zp, focus)
    /\ obs' = [op |-> "reset", was_reset |-> TRUE, since |-> NoTime]
    /\ UNCHANGED <<now, focus, events>>
    /\ UNCHANGED <<cm, eng, trk, ahc, wpn, gal, wk>>

BufferNext == IncrementEvent \/ ResetEvent \/ Tick

SpecBuffer == BufferInit /\ [][BufferNext]_vars

\* --- process_frame seen frame by frame: the gates of one event type ------------------

\* What an observer of process_frame notes on a frame: the processor as it was
\* before the frame, the time of the frame, and how many frames the processor has
\* seen since construction if every one of them carried a weapon finding at or
\* above the zone's threshold (NoTime once one did not)
NoGate == [acted |-> FALSE, prev |-> NewProcessor("outgate"), t |-> NoTime, run |-> 0]

GateInit ==
    /\ now = StartClock
    /\ zp \in {NewProcessor(z) : z \in Zones}
    /\ focus \in EventTypes
    /\ events = <<>>
    /\ obs = NoGate
    /\ CooldownIdle /\ EngineIdle /\ TrackerIdle /\ AfterHoursIdle
    /\ WeaponIdle /\ GalleryIdle /\ WorkerIdle

\* One frame through process_frame
GateFrame ==
    \E f \in Frames(focus) :
        \E r \in {process_frame(zp, f, now)} :
           /\ CountersWithin(r.s)
           /\ zp' = r.s
           /\ events' = r.ev
           /\ obs' = [acted |-> TRUE, prev |-> zp, t |-> now,
                      run |-> IF /\ obs.run # NoTime
                                 /\ obs.run < MaxFrameCount
                                 /\ qualifies(zp.zone_name, f, "weapon")
                              THEN obs.run + 1 ELSE NoTime]
           /\ UNCHANGED <<now, focus>>
           /\ UNCHANGED <<cm, eng, trk, ahc, wpn, gal, wk>>

GateNext == GateFrame \/ CountersTick

SpecGate == GateInit /\ [][GateNext]_vars

\* --- EventCooldownManager.should_emit called from several worker threads ---------------

\* the camera worker threads of the process (one EventCooldownManager between them)
Threads == {"w1", "w2"}

MaxCalls == 2           \* should_emit calls one thread makes in a run

RaceType == "mobile_usage"

RaceCameras == {"cam1"}

RaceConfidences == {50, 56}

NoThread == ""

\* variant of the `with self._lock:` entry that does not wait for the holder
can_acquire_held(lock) == TRUE

\* `with self._lock:` can be entered when no thread holds the lock
can_acquire(lock) == lock = NoThread

\* a thread outside should_emit
IdleThread ==
    [pc |-> "idle", camera_id |-> "", confidence |-> 0, t |-> NoTime,
     emit |-> FALSE, calls |-> 0]

\* the lock as thread th leaves the with block
released(lock, th) == IF lock = th THEN NoThread ELSE lock

EmitRaceInit ==
    /\ now = StartClock
    /\ wk = [state |-> [k \in CooldownKeys |-> NoEntry],
             lock |-> NoThread,
             th |-> [th \in Threads |-> IdleThread],
             log |-> {}]
    /\ ZoneIdle /\ CooldownIdle /\ EngineIdle /\ TrackerIdle /\ AfterHoursIdle
    /\ WeaponIdle /\ GalleryIdle

\* should_emit up to the lock: key, now = time.time(), cooldown (worker.py:119-121)
StartCall(th) ==
    /\ wk.th[th].pc = "idle"
    /\ wk.th[th].calls < MaxCalls
    /\ \E c \in RaceCameras, conf \in RaceConfidences :
          wk' = [wk EXCEPT !.th[th] = [pc |-> "wait", camera_id |-> c,
                                       confidence |-> conf, t |-> now,
                                       emit |-> FALSE, calls |-> @.calls]]
    /\ UNCHANGED now
    /\ UNCHANGED <<zp, focus, events, obs, cm, eng, trk, ahc, wpn, gal>>

\* with self._lock:
Acquire(th) ==
    /\ wk.th[th].pc = "wait"
    /\ can_acquire(wk.lock)
    /\ wk' = [wk EXCEPT !.lock = th, !.th[th].pc = "check"]
    /\ UNCHANGED now
    /\ UNCHANGED <<zp, focus, events, obs, cm, eng, trk, ahc, wpn, gal>>

\* the tests of should_emit on the state as the thread reads it: a suppressed
\* call returns False here, an emitting one goes on to its stores
Check(th) ==
    LET me  == wk.th[th]
        key == <<me.camera_id, RaceType>>
        r   == should_emit(wk.state, me.camera_id, RaceType, me.confidence, me.t)
    IN /\ me.pc = "check"
       /\ wk' = IF ~r.emit
                THEN [wk EXCEPT !.lock = released(@, th),
                                !.th[th].pc = "idle", !.th[th].emit = FALSE,
                                !.th[th].calls = @ + 1]
                ELSE [wk EXCEPT !.th[th].pc = IF wk.state[key] = NoEntry
                                               THEN "store_first"
                                               ELSE "store_time"]
       /\ UNCHANGED now
       /\ UNCHANGED <<zp, focus, events, obs, cm, eng, trk, ahc, wpn, gal>>

\* the stores of an emitting call: self._state[key] = {...} for a new key, else
\* state["last_time"] = now and then state["last_confidence"] = confidence;
\* return True after the last store
Store(th) ==
    LET me  == wk.th[th]
        key == <<me.camera_id, RaceType>>
        returned == [wk EXCEPT !.lock = released(@, th),
                               !.th[th].pc = "idle", !.th[th].emit = TRUE,
                               !.th[th].calls = @ + 1,
                               !.log = @ \cup {<<key, me.t, me.confidence>>}]
    IN /\ me.pc \in {"store_first", "store_time", "store_confidence"}
       /\ wk' = CASE me.pc = "store_first" ->
                       [returned EXCEPT !.state[key] =
                            [last_time |-> me.t, last_confidence |-> me.confidence]]
                  [] me.pc = "store_time" ->
                       [wk EXCEPT !.state[key].last_time = me.t,
                                  !.th[th].pc = "store_confidence"]
                  [] me.pc = "store_confidence" ->
                       [returned EXCEPT !.state[key].last_confidence = me.confidence]
       /\ UNCHANGED now
       /\ UNCHANGED <<zp, focus, events, obs, cm, eng, trk, ahc, wpn, gal>>

\* The wall clock advances between the threads' steps
RaceTick ==
    /\ now < StartClock + get_cooldown(RaceType) + ClockSlack
    /\ now' = now + 1
    /\ UNCHANGED <<zp, focus, events, obs, cm, eng, trk, ahc, wpn, gal, wk>>

EmitRaceNext ==
    \/ \E th \in Threads : StartCall(th)
    \/ \E th \in Threads : Acquire(th)
    \/ \E th \in Threads : Check(th)
    \/ \E th \in Threads : Store(th)
    \/ RaceTick

SpecEmitRace == EmitRaceInit /\ [][EmitRaceNext]_vars

\* --- the process-wide singletons constructed from several threads ------------------

SingletonKinds == {"ModelRegistry", "TrackerRegistry", "SharedDetectors"}

\* One singleton class before its first construction.  store is what callers
\* insert into the instance (_zone_models, _trackers); made, bodies, lost and
\* partial are an observer's notes: instances created, runs of the __init__
\* body, an inserted entry discarded, a method run on an instance whose body had
\* not finished
NewSingleton(kind) ==
    [kind |-> kind, instance |-> FALSE, initialized |-> FALSE, complete |-> FALSE,
     store |-> {}, lock |-> NoThread,
     pc |-> [th \in Threads |-> "new"],
     made |-> 0, bodies |-> 0, lost |-> FALSE, partial |-> FALSE]

SingletonInit ==
    /\ now = StartClock
    /\ wk \in {NewSingleton(kind) : kind \in SingletonKinds}
    /\ ZoneIdle /\ CooldownIdle /\ EngineIdle /\ TrackerIdle /\ AfterHoursIdle
    /\ WeaponIdle /\ GalleryIdle

\* cls.__new__: if cls._instance is None: with cls._lock: if cls._instance is
\* None: cls._instance = super().__new__(cls) (and _initialized = False on it)
SingletonNew(th) ==
    /\ wk.pc[th] \in {"new", "new_wait", "new_locked"}
    /\ wk' = CASE wk.pc[th] = "new" ->
                     [wk EXCEPT !.pc[th] = IF wk.instance THEN "init" ELSE "new_wait"]
                [] wk.pc[th] = "new_wait" /\ can_acquire(wk.lock) ->
                     [wk EXCEPT !.lock = th, !.pc[th] = "new_locked"]
                [] wk.pc[th] = "new_wait" /\ ~can_acquire(wk.lock) -> wk
                [] wk.pc[th] = "new_locked" ->
                     IF wk.instance
                     THEN [wk EXCEPT !.lock = NoThread, !.pc[th] = "init"]
                     ELSE [wk EXCEPT !.instance = TRUE, !.made = @ + 1,
                                     !.lock = NoThread, !.pc[th] = "init"]
    /\ wk' # wk
    /\ UNCHANGED now
    /\ UNCHANGED <<zp, focus, events, obs, cm, eng, trk, ahc, wpn, gal>>

\* __init__.  ModelRegistry and TrackerRegistry: if self._initialized: return;
\* then the body with no lock held: the containers are set empty, _initialized =
\* True, and the instance's own lock is created last.  SharedDetectors: the same
\* test, then with SharedDetectors._lock: the test again, the body,
\* _initialized = True last.
SingletonInitialise(th) ==
    LET locked == wk.kind = "SharedDetectors" IN
    /\ wk.pc[th] \in {"init", "init_wait", "init_locked", "body", "mark", "finish"}
    /\ wk' = CASE wk.pc[th] = "init" ->
                     [wk EXCEPT !.pc[th] = IF wk.initialized THEN "ready"
                                            ELSE IF locked THEN "init_wait"
                                            ELSE "body"]
                [] wk.pc[th] = "init_wait" /\ can_acquire(wk.lock) ->
                     [wk EXCEPT !.lock = th, !.pc[th] = "init_locked"]
                [] wk.pc[th] = "init_wait" /\ ~can_acquire(wk.lock) -> wk
                [] wk.pc[th] = "init_locked" ->
                     IF wk.initialized
                     THEN [wk EXCEPT !.lock = NoThread, !.pc[th] = "ready"]
                     ELSE [wk EXCEPT !.pc[th] = "body"]
                [] wk.pc[th] = "body" ->
                     [wk EXCEPT !.store = {}, !.bodies = @ + 1,
                                !.lost = @ \/ wk.store # {},
                                !.pc[th] = IF locked THEN "finish" ELSE "mark"]
                [] wk.pc[th] = "mark" ->
                     [wk EXCEPT !.initialized = TRUE, !.pc[th] = "finish"]
                [] wk.pc[th] = "finish" ->
                     [wk EXCEPT !.initialized = TRUE, !.complete = TRUE,
                                !.lock = released(@, th), !.pc[th] = "ready"]
    /\ wk' # wk
    /\ UNCHANGED now
    /\ UNCHANGED <<zp, focus, events, obs, cm, eng, trk, ahc, wpn, gal>>

\* The thread uses the instance it was given: ModelRegistry.get_model caches a
\* model under self._load_lock, TrackerRegistry.get_tracker creates the camera's
\* tracker under self._lock (the class's lock while the instance has none),
\* SharedDetectors.run reads the detectors
SingletonUse(th) ==
    /\ wk.pc[th] = "ready"
    /\ wk' = [wk EXCEPT !.pc[th] = "used",
                        !.partial = @ \/ (wk.kind = "ModelRegistry" /\ ~wk.complete),
                        !.store = IF wk.kind = "SharedDetectors" THEN @
                                  ELSE @ \cup {th}]
    /\ UNCHANGED now
    /\ UNCHANGED <<zp, focus, events, obs, cm, eng, trk, ahc, wpn, gal>>

SingletonNext ==
    \/ \E th \in Threads : SingletonNew(th)
    \/ \E th \in Threads : SingletonInitialise(th)
    \/ \E th \in Threads : SingletonUse(th)

SpecSingleton == SingletonInit /\ [][SingletonNext]_vars

\* --- the Re-Id managers of the camera workers of one process ------------------------

\* the camera workers: camA and camB watch one zone each, camC runs all zones
\* (MultiZonePipeline)
ReidWorkers == {"camA", "camB", "camC"}

\* the camera_id each pipeline of a worker passes to enrich_events: the worker's
\* own for a single-zone worker, f"{camera_id}_{zone}" for each zone pipeline of
\* a multi-zone worker (two of its four zones are kept)
PipelineCameraIds ==
    [w \in ReidWorkers |->
        IF w = "camC" THEN {"camC_outgate", "camC_corridor"} ELSE {w}]

\* embeddings of the people in front of the cameras: 0 and 60 degrees
People == {0, 12}

\* ReidManager.enrich_events for an event with a person embedding: the gallery
\* afterwards and the fields set on the event
enrich_events(g, embedding, camera_id, t) ==
    LET r == match_or_register(g, embedding, camera_id, t)
        cameras_seen == r.g.entries[r.id].camera_ids
    IN [g |-> r.g, global_person_id |-> r.id,
        cross_camera |-> Cardinality(cameras_seen) > 1,
        seen_in_cameras |-> cameras_seen]

\* What an observer notes about the latest enrich_events call: the worker, the
\* person, the fields set, the workers that had seen the person before and the
\* id the person got at the first sighting of all
NoEnrichCall ==
    [worker |-> "", person |-> 0, global_person_id |-> 0, cross_camera |-> FALSE,
     seen_before |-> {}, first_id |-> 0]

\* CameraWorker.__init__ of every worker: each single-zone worker and each
\* MultiZonePipeline builds a ReidManager of its own, with a gallery of its own
ReidInit ==
    /\ now = StartClock
    /\ wk = [mgr |-> [w \in ReidWorkers |-> NewGallery],
             seen |-> [p \in People |-> {}],
             first_id |-> [p \in People |-> 0],
             call |-> NoEnrichCall]
    /\ ZoneIdle /\ CooldownIdle /\ EngineIdle /\ TrackerIdle /\ AfterHoursIdle
    /\ WeaponIdle /\ GalleryIdle

\* A pipeline of worker w passes an event with person p to its Re-Id manager
ReidEnrich ==
    \E w \in ReidWorkers, p \in People :
        \E c \in PipelineCameraIds[w] :
            \E r \in {enrich_events(wk.mgr[w], p, c, now)} :
               /\ r.g.next_id <= MaxGalleryIds + 1
               /\ wk' = [mgr |-> [wk.mgr EXCEPT ![w] = r.g],
                         seen |-> [wk.seen EXCEPT ![p] = @ \cup {w}],
                         first_id |-> [wk.first_id EXCEPT ![p] =
                                          IF @ = 0 THEN r.global_person_id ELSE @],
                         call |-> [worker |-> w, person |-> p,
                                   global_person_id |-> r.global_person_id,
                                   cross_camera |-> r.cross_camera,
                                   seen_before |-> wk.seen[p],
                                   first_id |-> wk.first_id[p]]]
               /\ UNCHANGED now
               /\ UNCHANGED <<zp, focus, events, obs, cm, eng, trk, ahc, wpn, gal>>

ReidNext == ReidEnrich

SpecReid == ReidInit /\ [][ReidNext]_vars

\* --- one CameraWorker: start() on its thread, stop() from the main thread ------------

\* video sources: a file, a live stream (URL or webcam index), one that
\* cv2.VideoCapture cannot open
Sources == {"file", "stream", "cannot_open"}

\* what one pass of the loop body meets: cap.read() fails; process_frame raises;
\* the frame has no event; its event is suppressed by the cooldown; its event is
\* posted and the POST answers 200, answers another status, times out, or finds
\* no connection
FrameOutcomes ==
    {"decode_failure", "frame_error", "no_event", "suppressed",
     "post_200", "post_500", "post_timeout", "post_connection_error"}

PerFrameErrors == {"frame_error", "post_500", "post_timeout", "post_connection_error"}

\* variant of the loop body in which an exception of process_frame leaves the loop
after_frame_raising(outcome) ==
    IF outcome = "frame_error" THEN "cleanup" ELSE "test"

\* where the thread goes after one pass of the loop body: `continue` after a
\* failed read, `except Exception: ... continue` after an exception, the end of
\* the body otherwise (_send_event catches and logs every failure of the POST)
after_frame(outcome) == "test"

\* what the loop body does when cap.read() returns no frame:
\* cap.set(cv2.CAP_PROP_POS_FRAMES, 0) and continue; the source is not looked at
on_read_failure(source) == "rewind"

\* CameraWorker.__init__; the thread that will run start() exists.  last, failed,
\* rewound, read_after_failure, errors, sent_after_error, stopped_at are an
\* observer's notes.
NewWorker(source) ==
    [source |-> source, pc |-> "idle", running |-> FALSE, shutdown_flag |-> FALSE,
     cap |-> "none", stop_called |-> FALSE, stopped_at |-> "",
     last |-> "", failed |-> FALSE, rewound |-> FALSE, read_after_failure |-> FALSE,
     errors |-> FALSE, sent_after_error |-> FALSE]

WorkerInit ==
    /\ now = StartClock
    /\ wk \in {NewWorker(s) : s \in Sources}
    /\ ZoneIdle /\ CooldownIdle /\ EngineIdle /\ TrackerIdle /\ AfterHoursIdle
    /\ WeaponIdle /\ GalleryIdle

\* start() up to the loop: the capture is opened (an unopened one raises, which
\* start() catches before its finally), then self._running = True, then
\* self._shutdown_flag.clear()
WorkerStart ==
    /\ wk.pc \in {"idle", "set_running", "clear_flag"}
    /\ wk' = CASE wk.pc = "idle" ->
                     IF wk.source = "cannot_open"
                     THEN [wk EXCEPT !.cap = "unopened", !.pc = "cleanup"]
                     ELSE [wk EXCEPT !.cap = "open", !.pc = "set_running"]
                [] wk.pc = "set_running" ->
                     [wk EXCEPT !.running = TRUE, !.pc = "clear_flag"]
                [] wk.pc = "clear_flag" ->
                     [wk EXCEPT !.shutdown_flag = FALSE, !.pc = "test"]
    /\ UNCHANGED now
    /\ UNCHANGED <<zp, focus, events, obs, cm, eng, trk, ahc, wpn, gal>>

\* while self._running and not self._shutdown_flag.is_set():
LoopTest ==
    /\ wk.pc = "test"
    /\ wk' = [wk EXCEPT !.pc = IF wk.running /\ ~wk.shutdown_flag
                               THEN "throttle" ELSE "cleanup"]
    /\ UNCHANGED now
    /\ UNCHANGED <<zp, focus, events, obs, cm, eng, trk, ahc, wpn, gal>>

\* the FPS throttle: when the frame interval has not passed,
\* self._shutdown_flag.wait(timeout) and break if it is set, else continue;
\* when it has passed, on to the body
Throttle ==
    /\ wk.pc = "throttle"
    /\ \E early \in BOOLEAN :
          wk' = [wk EXCEPT !.pc = IF ~early THEN "frame"
                                  ELSE IF wk.shutdown_flag THEN "cleanup"
                                  ELSE "test"]
    /\ UNCHANGED now
    /\ UNCHANGED <<zp, focus, events, obs, cm, eng, trk, ahc, wpn, gal>>

\* one pass of the loop body: cap.read(); on a failed read cap.set(POS_FRAMES, 0)
\* and continue, whatever the source; else process_frame, should_emit and
\* _send_event for the frame's event
Frame ==
    /\ wk.pc = "frame"
    /\ \E outcome \in FrameOutcomes :
          wk' = [wk EXCEPT !.pc = IF /\ outcome = "decode_failure"
                                     /\ on_read_failure(wk.source) # "rewind"
                                  THEN "cleanup" ELSE after_frame(outcome),
                           !.last = outcome,
                           !.read_after_failure = @ \/ wk.failed,
                           !.failed = @ \/ outcome = "decode_failure",
                           !.rewound = @ \/ (/\ outcome = "decode_failure"
                                             /\ on_read_failure(wk.source) = "rewind"),
                           !.errors = @ \/ outcome \in PerFrameErrors,
                           !.sent_after_error =
                               @ \/ (wk.errors /\ outcome = "post_200")]
    /\ UNCHANGED now
    /\ UNCHANGED <<zp, focus, events, obs, cm, eng, trk, ahc, wpn, gal>>

\* finally: self._safe_cleanup(): _running = False, the capture released
Cleanup ==
    /\ wk.pc = "cleanup"
    /\ wk' = [wk EXCEPT !.running = FALSE, !.cap = "released", !.pc = "done"]
    /\ UNCHANGED now
    /\ UNCHANGED <<zp, focus, events, obs, cm, eng, trk, ahc, wpn, gal>>

\* stop(), called from the main thread at any moment of the worker thread
Stop ==
    /\ ~wk.stop_called
    /\ wk' = [wk EXCEPT !.running = FALSE, !.shutdown_flag = TRUE,
                        !.stop_called = TRUE, !.stopped_at = wk.pc]
    /\ UNCHANGED now
    /\ UNCHANGED <<zp, focus, events, obs, cm, eng, trk, ahc, wpn, gal>>

\* the steps of the worker's thread
WorkerThread == WorkerStart \/ LoopTest \/ Throttle \/ Frame \/ Cleanup

WorkerNext == WorkerStart \/ LoopTest \/ Throttle \/ Frame \/ Cleanup \/ Stop

SpecWorker == WorkerInit /\ [][WorkerNext]_vars

\* the worker's thread is scheduled again and again while it has a step to take
SpecWorkerFair == WorkerInit /\ [][WorkerNext]_vars /\ WF_vars(WorkerThread)

\* --- run_all_configured_cameras: building and starting the workers -------------------

MaxCameras == 3         \* cameras the backend lists

\* a listed camera: sound; with a zone that has no processor; with a source
\* cv2.VideoCapture cannot open; with no source at all
CameraConfigs == {"ok", "unknown_zone", "cannot_open", "no_source"}

\* the body of `for cam in cameras:` for one camera: skipped when
\* _resolve_camera_source gives None; CameraWorker(...) raises for a zone without
\* processor (DetectionPipeline.__init__: ValueError) and nothing catches it;
\* else the worker and its thread are appended
build_worker(config) ==
    CASE config = "no_source"    -> "skipped"
      [] config = "unknown_zone" -> "raised"
      [] OTHER                   -> "built"

\* _start_safe on the worker's thread: worker.start() catches the RuntimeError of
\* a source that cannot be opened and returns after cleanup; else the loop runs
start_worker(config) == IF config = "cannot_open" THEN "ended" ELSE "running"

LauncherInit ==
    /\ now = StartClock
    /\ \E cameras \in [1 .. MaxCameras -> CameraConfigs] :
          wk = [cameras |-> cameras, pc |-> "building", next |-> 1,
                status |-> [i \in 1 .. MaxCameras |-> "listed"]]
    /\ ZoneIdle /\ CooldownIdle /\ EngineIdle /\ TrackerIdle /\ AfterHoursIdle
    /\ WeaponIdle /\ GalleryIdle

\* one pass of `for cam in cameras:`; after the last camera, `if not threads:
\* return`
BuildWorker ==
    /\ wk.pc = "building"
    /\ LET r == build_worker(wk.cameras[wk.next])
           status == [wk.status EXCEPT ![wk.next] = r]
           last == wk.next = MaxCameras
       IN wk' = [wk EXCEPT !.status = status,
                           !.next = IF last \/ r = "raised" THEN 1 ELSE @ + 1,
                           !.pc = IF r = "raised" THEN "raised"
                                  ELSE IF ~last THEN "building"
                                  ELSE IF \E i \in 1 .. MaxCameras : status[i] = "built"
                                  THEN "starting" ELSE "no_workers"]
    /\ UNCHANGED now
    /\ UNCHANGED <<zp, focus, events, obs, cm, eng, trk, ahc, wpn, gal>>

\* one pass of `for t in threads: t.start()`
StartThread ==
    /\ wk.pc = "starting"
    /\ LET built == {i \in 1 .. MaxCameras : wk.status[i] = "built"}
           t == CHOOSE i \in built : \A j \in built : i <= j
       IN wk' = [wk EXCEPT !.status[t] = "started",
                           !.pc = IF built = {t} THEN "launched" ELSE "starting"]
    /\ UNCHANGED now
    /\ UNCHANGED <<zp, focus, events, obs, cm, eng, trk, ahc, wpn, gal>>

\* a started thread runs _start_safe
RunWorker ==
    /\ \E i \in 1 .. MaxCameras :
          /\ wk.status[i] = "started"
          /\ wk' = [wk EXCEPT !.status[i] = start_worker(wk.cameras[i])]
    /\ UNCHANGED now
    /\ UNCHANGED <<zp, focus, events, obs, cm, eng, trk, ahc, wpn, gal>>

LauncherNext == BuildWorker \/ StartThread \/ RunWorker

SpecLauncher == LauncherInit /\ [][LauncherNext]_vars

\* --- one frame's shared findings handed to the zone pipelines of a multi-zone worker --

\* MultiZonePipeline.ALL_ZONES, the order of self._pipelines
ALL_ZONES == <<"outgate", "corridor", "school_ground", "classroom">>

\* where a box stands in the frame; two boxes at one place overlap fully, boxes
\* at neighbouring places by a tenth, others not at all (IoU in hundredths)
Places == {0, 1, 3}

compute_iou(a, b) ==
    CASE a = b                       -> 100
      [] a - b = 1 \/ b - a = 1      -> 10
      [] OTHER                       -> 0

ALIGN_IOU_THRESHOLD == 20           \* iou_threshold = 0.2

\* _align_poses_with_tracks(poses, persons): every pose without a track_id gets
\* the object_id of the first person of highest IoU, if that is at least 0.2;
\* the pose dicts of the list are written in place, the list itself is returned
align_poses_with_tracks(poses, persons) ==
    IF poses = <<>> \/ persons = <<>> THEN poses
    ELSE [i \in DOMAIN poses |->
            IF poses[i].track_id # NoId /\ poses[i].track_id >= 0 THEN poses[i]
            ELSE LET iou(j) == compute_iou(poses[i].place, persons[j].place)
                     best == {j \in DOMAIN persons :
                                 /\ iou(j) > 0
                                 /\ \A k \in DOMAIN persons : iou(k) <= iou(j)}
                 IN IF best = {} THEN poses[i]
                    ELSE LET b == CHOOSE j \in best : \A k \in best : j <= k
                         IN IF iou(b) >= ALIGN_IOU_THRESHOLD
                            THEN [poses[i] EXCEPT !.track_id = persons[b].object_id]
                            ELSE poses[i]]

\* whether the zone's process_frame reaches _align_poses_with_tracks on a frame
\* of a fresh processor: corridor in _detect_fight (2 persons or more),
\* school_ground in _detect_fight and in _detect_fall (a person); outgate and
\* classroom never call it
zone_aligns(zone, persons) ==
    \/ zone = "corridor" /\ Len(persons) >= 2
    \/ zone = "school_ground" /\ Len(persons) >= 1

\* the object ids the zones' own trackers have given the people in the frame
ZoneTrackIds == {<<0, 1>>, <<1, 0>>, <<3, 4>>}

\* One frame: shared_detectors.run gave poses `produced`; each zone pipeline has
\* tracked the people in the frame under its own object ids.  seen notes the
\* poses each zone processor found in the shared dict (not program state).
SharedInit ==
    /\ now = StartClock
    /\ \E n \in 1 .. 2, m \in 1 .. 2 :
       \E produced \in [1 .. m -> [track_id : {NoId, 7}, place : Places]],
          where \in [1 .. n -> Places],
          ids \in [{"corridor", "school_ground"} -> ZoneTrackIds] :
          wk = [produced |-> produced, poses |-> produced,
                persons |-> [z \in Zones |->
                               [j \in 1 .. n |->
                                  [object_id |-> IF z \in DOMAIN ids THEN ids[z][j]
                                                 ELSE j - 1,
                                   place |-> where[j]]]],
                next |-> 1,
                seen |-> [z \in Zones |-> <<>>]]
    /\ ZoneIdle /\ CooldownIdle /\ EngineIdle /\ TrackerIdle /\ AfterHoursIdle
    /\ WeaponIdle /\ GalleryIdle

\* MultiZonePipeline.process_frame: the next zone's pipeline processes the frame
\* with the shared dict
ZoneProcessShared ==
    /\ wk.next <= Len(ALL_ZONES)
    /\ LET zone == ALL_ZONES[wk.next] IN
       wk' = [wk EXCEPT !.seen[zone] = wk.poses,
                        !.poses = IF zone_aligns(zone, wk.persons[zone])
                                  THEN align_poses_with_tracks(@, wk.persons[zone])
                                  ELSE @,
                        !.next = @ + 1]
    /\ UNCHANGED now
    /\ UNCHANGED <<zp, focus, events, obs, cm, eng, trk, ahc, wpn, gal>>

SharedNext == ZoneProcessShared

SpecShared == SharedInit /\ [][SharedNext]_vars

\* --- MultiZonePipeline.process_frame: one frame through the pipelines of all zones ---

MaxFrames == 2

\* the steps of a zone pipeline's frame processing at which an exception may be raised
Stages == {"yolo", "tracking", "zone"}
ExceptionKinds == {"AttributeError", "TypeError", "ValueError"}
NoFault == [stage |-> "none", kind |-> "none"]
Faults == {NoFault} \cup [stage : Stages, kind : ExceptionKinds]

\* the calls of one frame counted per zone (not program state), and the exception
\* leaving the code, "none" if it returned
NoRuns == [z \in Zones |-> 0]

\* the calls a pipeline makes up to and including its zone processor; raises_at is
\* the stage that raises ("none": no stage does), with_shared whether the shared
\* detectors are run between tracking and the zone processor (process_frame does,
\* _process_frame_with_shared does not)
run_pipeline(c, zone, raises_at, with_shared) ==
    LET tracked == raises_at # "yolo"
        detected == tracked /\ raises_at # "tracking"
    IN [c EXCEPT !.tracker_runs[zone] = IF tracked THEN @ + 1 ELSE @,
                 !.shared_runs = IF detected /\ with_shared THEN @ + 1 ELSE @,
                 !.zone_runs[zone] = IF detected THEN @ + 1 ELSE @]

\* DetectionPipeline._process_frame_with_shared(frame, shared): a TypeError out of
\* the zone processor is answered by calling the zone processor again without the
\* shared dict; again_at is the stage at which re-executed code raises
process_frame_with_shared(c, zone, fault, again_at) ==
    LET first == run_pipeline(c, zone, fault.stage, FALSE) IN
    IF fault.stage = "zone" /\ fault.kind = "TypeError"
    THEN [c |-> [first EXCEPT !.zone_runs[zone] = @ + 1],
          exc |-> IF again_at = "zone" THEN "TypeError" ELSE "none"]
    ELSE [c |-> first, exc |-> fault.kind]

\* DetectionPipeline.process_frame(frame), the fallback of the multi-zone loop
process_frame_fallback(c, zone, again_at) ==
    [c |-> run_pipeline(c, zone, again_at, TRUE),
     exc |-> IF again_at = "none" THEN "none" ELSE "ValueError"]

\* one pass of `for zone, pipeline in self._pipelines.items()`:
\* except AttributeError runs pipeline.process_frame(frame) outside any try,
\* except Exception logs; left: an exception left MultiZonePipeline.process_frame
process_zone(c, zone, fault, again_at) ==
    LET r == process_frame_with_shared(c, zone, fault, again_at) IN
    IF r.exc = "AttributeError"
    THEN LET f == process_frame_fallback(r.c, zone, again_at) IN
         [f.c EXCEPT !.raised[zone] = r.exc, !.left = f.exc # "none"]
    ELSE [r.c EXCEPT !.raised[zone] = r.exc]

NewFrameRuns ==
    [shared_runs |-> 0, tracker_runs |-> NoRuns, zone_runs |-> NoRuns,
     raised |-> [z \in Zones |-> "none"], left |-> FALSE]

MultiZoneInit ==
    /\ now = StartClock
    /\ wk = [pc |-> "shared", next |-> 1, frame_idx |-> 0, frames |-> 0, c |-> NewFrameRuns]
    /\ ZoneIdle /\ CooldownIdle /\ EngineIdle /\ TrackerIdle /\ AfterHoursIdle
    /\ WeaponIdle /\ GalleryIdle

\* shared = self._shared_detectors.run(frame)
RunShared ==
    /\ wk.pc = "shared"
    /\ wk.frames < MaxFrames
    /\ wk' = [wk EXCEPT !.pc = "zones", !.next = 1, !.frames = @ + 1,
                        !.c = [NewFrameRuns EXCEPT !.shared_runs = 1]]
    /\ UNCHANGED now
    /\ UNCHANGED <<zp, focus, events, obs, cm, eng, trk, ahc, wpn, gal>>

ProcessZone ==
    /\ wk.pc = "zones"
    /\ wk.next <= Len(ALL_ZONES)
    /\ \E fault \in Faults, again_at \in Stages \cup {"none"} :
          LET c == process_zone(wk.c, ALL_ZONES[wk.next], fault, again_at) IN
          wk' = [wk EXCEPT !.c = c,
                           !.next = IF c.left THEN @ ELSE @ + 1,
                           !.pc = IF c.left THEN "shared" ELSE @]
    /\ UNCHANGED now
    /\ UNCHANGED <<zp, focus, events, obs, cm, eng, trk, ahc, wpn, gal>>

\* self._frame_idx += 1; return all_events
EndFrame ==
    /\ wk.pc = "zones"
    /\ wk.next > Len(ALL_ZONES)
    /\ wk' = [wk EXCEPT !.pc = "shared", !.frame_idx = @ + 1]
    /\ UNCHANGED now
    /\ UNCHANGED <<zp, focus, events, obs, cm, eng, trk, ahc, wpn, gal>>

MultiZoneNext == RunShared \/ ProcessZone \/ EndFrame

SpecMultiZone == MultiZoneInit /\ [][MultiZoneNext]_vars

\* --- the outgate motion analyzer and the four-stage pair evaluation ----------------
\* Boxes move along one line (y is constant); positions are centre x in pixels.

HISTORY_LEN == 8
MIN_SPEED_PX == 2
ACCIDENT_PROXIMITY_THRESHOLD == 200
ACCIDENT_CLOSE_PROXIMITY == 100
ACCIDENT_IOU_THRESHOLD == 15        \* hundredths
ACCIDENT_IOU_SOFT_THRESHOLD == 5

VehicleIds == {1, 2}

Dist(a, b) == IF a >= b THEN a - b ELSE b - a

\* VehicleMotionAnalyzer(): no vehicle has a history (<<>>: no key)
NewMotionAnalyzer == [vid \in VehicleIds |-> <<>>]

\* update(vehicle, timestamp): deque(maxlen = HISTORY_LEN).append((x, timestamp))
motion_update(ma, vehicle, t) ==
    LET h == Append(ma[vehicle.object_id], <<vehicle.x, t>>)
    IN [ma EXCEPT ![vehicle.object_id] =
                     IF Len(h) > HISTORY_LEN THEN Tail(h) ELSE h]

\* variant of cleanup that deletes nothing
cleanup_keeping_lost(ma, active_ids) == ma

\* cleanup(active_ids): the history of every vehicle not in the frame is deleted
cleanup(ma, active_ids) ==
    [vid \in VehicleIds |-> IF vid \in active_ids THEN ma[vid] ELSE <<>>]

\* variant of has_track that accepts a single observation
has_track_single(ma, vid) == Len(ma[vid]) >= 1

\* has_track(vid): at least 2 observations
has_track(ma, vid) == Len(ma[vid]) >= 2

\* get_velocity_vector(vid): px/frame between the last two observations
get_velocity(ma, vid) ==
    LET h == ma[vid] IN
    IF Len(h) < 2 THEN 0 ELSE h[Len(h)][1] - h[Len(h) - 1][1]

get_speed(ma, vid) == Dist(get_velocity(ma, vid), 0)

\* is_approaching(vid, person): the velocity points at the person (cos > 0.3; on
\* a line the cosine is 1 or -1)
is_approaching(ma, vid, person) ==
    LET vx == get_velocity(ma, vid)
        h == ma[vid]
        dx == person.x - h[Len(h)][1]
    IN IF Dist(vx, 0) < MIN_SPEED_PX THEN FALSE
       ELSE IF h = <<>> THEN FALSE
       ELSE IF Dist(dx, 0) < 1 THEN TRUE
       ELSE vx * dx > 0

\* is_sudden_stop(vid): the last step is below a quarter of the fastest earlier
\* step of the history, which was at least 5 px
is_sudden_stop(ma, vid) ==
    LET h == ma[vid]
        step(i) == Dist(h[i + 1][1], h[i][1])
    IN IF Len(h) < 3 THEN FALSE
       ELSE LET prev_speed == SetMax({step(i) : i \in 1 .. Len(h) - 2})
                curr_speed == step(Len(h) - 1)
            IN IF prev_speed < 5 THEN FALSE
               ELSE 4 * curr_speed < prev_speed

\* variant of the pair classification that knows the strong overlap only
classify_signal_overlap_only(ma, vehicle, person, iou) ==
    IF iou > ACCIDENT_IOU_THRESHOLD THEN "strong_overlap" ELSE "none"

\* the signal of one (vehicle, person) pair, strongest first
classify_signal(ma, vehicle, person, iou) ==
    LET vid == vehicle.object_id
        dist == Dist(vehicle.x, person.x)
        is_proximate == dist < ACCIDENT_PROXIMITY_THRESHOLD
        is_very_close == dist < ACCIDENT_CLOSE_PROXIMITY
        is_strong_overlap == iou > ACCIDENT_IOU_THRESHOLD
        is_soft_overlap == iou > ACCIDENT_IOU_SOFT_THRESHOLD
        approaching == is_approaching(ma, vid, person)
        is_moving == get_speed(ma, vid) > MIN_SPEED_PX
    IN CASE is_strong_overlap                          -> "strong_overlap"
         [] is_sudden_stop(ma, vid) /\ is_proximate    -> "sudden_stop"
         [] is_very_close /\ is_moving                 -> "moving_very_close"
         [] approaching /\ is_proximate                -> "approaching_proximate"
         [] is_soft_overlap /\ (is_moving \/ approaching) -> "soft_overlap_motion"
         [] approaching /\ is_moving                   -> "approaching_moving"
         [] is_proximate /\ is_soft_overlap            -> "proximity_soft_overlap"
         [] OTHER                                      -> "none"

signal_increment(signal) ==
    CASE signal \in {"strong_overlap", "sudden_stop", "moving_very_close"}
                                            -> SUSPICION_INCREMENT_STRONG
      [] signal \in {"approaching_proximate", "soft_overlap_motion"}
                                            -> SUSPICION_INCREMENT_MODERATE
      [] signal \in {"approaching_moving", "proximity_soft_overlap"}
                                            -> SUSPICION_INCREMENT_WEAK
      [] OTHER                              -> 0

\* the collision candidates of a frame: the (vehicle, person) pairs of tracked
\* vehicles that have a signal and an average confidence of 0.35 at least
collision_candidates(ma, f) ==
    LET pair(v, p) ==
            LET signal == classify_signal(ma, v, p, f.iou[v.object_id])
            IN [vehicle_id |-> v.object_id, iou |-> f.iou[v.object_id],
                signal |-> signal, increment |-> signal_increment(signal),
                confidence |-> (p.confidence + v.confidence) \div 2]
        tracked == {v \in f.vehicles : has_track(ma, v.object_id)}
    IN {c \in {pair(v, p) : v \in tracked, p \in f.persons} :
           c.signal # "none" /\ c.confidence >= ACCIDENT_MIN_AVG_CONFIDENCE}

NoCandidate == [vehicle_id |-> 0, iou |-> 0, signal |-> "none", increment |-> 0,
                confidence |-> 0]

\* best = max(collision_candidates, key = (increment, iou)): the first of the
\* greatest, vehicles in the order of the frame's list
best_candidate(cands) ==
    IF cands = {} THEN NoCandidate
    ELSE LET top == {c \in cands : \A d \in cands :
                        \/ d.increment < c.increment
                        \/ (d.increment = c.increment /\ d.iou <= c.iou)}
         IN CHOOSE c \in top : \A d \in top : c.vehicle_id <= d.vehicle_id

\* OutgateProcessor.process_frame on the accident side: the analyzer is updated
\* for every vehicle and cleaned, then _detect_accident evaluates the pairs
motion_process_frame(s, ma, f, t) ==
    LET updated == [vid \in VehicleIds |->
                      IF \E v \in f.vehicles : v.object_id = vid
                      THEN motion_update(ma, CHOOSE v \in f.vehicles : v.object_id = vid, t)[vid]
                      ELSE ma[vid]]
        ma1 == cleanup(updated, {v.object_id : v \in f.vehicles})
        cands == collision_candidates(ma1, f)
        best == best_candidate(cands)
        r == detect_accident(s, {v.confidence : v \in f.vehicles},
                             Cardinality(f.persons),
                             [increment |-> best.increment,
                              confidence |-> best.confidence,
                              collapse |-> f.collapse], t)
    IN [s |-> r.s, ev |-> r.ev, ma |-> ma1,
        gated |-> ~can_emit_event(s, "gate_accident", t),
        cands |-> cands, best |-> best]

\* --- runs of frames through the outgate processor -------------------------------------

MaxMotionFrames == 4        \* frames of one run
MaxMotionClock == 1         \* seconds one run lasts

PersonX == 320
MotionXs == {150, 300}

\* the frames of a run: vehicle 1 anywhere on the line, vehicle 2 standing by the
\* person, a person or none; boxes overlap only when the vehicle is by the person, and
\* vehicle 2's always does
MotionFrames ==
    {f \in [vehicles : SUBSET ([object_id : {1}, x : MotionXs, confidence : {50}]
                               \cup [object_id : {2}, x : {300}, confidence : {50}]),
            persons : SUBSET [object_id : {9}, x : {PersonX}, confidence : {60}],
            iou : [VehicleIds -> {0, 20}],
            collapse : {FALSE}] :
        /\ Cardinality(f.persons) <= 1
        /\ \A v, w \in f.vehicles : v.object_id = w.object_id => v = w
        /\ f.iou[1] > 0 => \E v \in f.vehicles :
                               v.object_id = 1 /\ v.x = 300 /\ f.persons # {}
        /\ f.iou[2] > 0 <=> \E v \in f.vehicles : v.object_id = 2 /\ f.persons # {}}

\* What an observer notes of the run (not program state): the frames so far, for
\* each vehicle the number of consecutive frames it is in and when it was last in
\* an earlier frame, and the pair evaluation of the last frame
NoMotionObs ==
    [frames |-> 0, run |-> [vid \in VehicleIds |-> 0],
     prev_seen |-> [vid \in VehicleIds |-> NoTime],
     last_seen |-> [vid \in VehicleIds |-> NoTime],
     present |-> {}, persons |-> 0, iou |-> [vid \in VehicleIds |-> 0], t |-> NoTime, gated |-> FALSE, cands |-> {},
     best |-> NoCandidate, prev_count |-> 0]

MotionInit ==
    /\ now = StartClock
    /\ zp = NewProcessor("outgate")
    /\ focus = "gate_accident"
    /\ events = <<>>
    /\ obs = NoMotionObs
    /\ trk = NewMotionAnalyzer
    /\ CooldownIdle /\ EngineIdle /\ AfterHoursIdle
    /\ WeaponIdle /\ GalleryIdle /\ WorkerIdle

observe_motion(o, s, ma, f, r, t) ==
    LET ids == {v.object_id : v \in f.vehicles} IN
    [frames |-> o.frames + 1,
     run |-> [vid \in VehicleIds |-> IF vid \in ids THEN o.run[vid] + 1 ELSE 0],
     prev_seen |-> o.last_seen,
     last_seen |-> [vid \in VehicleIds |-> IF vid \in ids THEN t ELSE o.last_seen[vid]],
     present |-> ids, persons |-> Cardinality(f.persons), iou |-> f.iou, t |-> t, gated |-> r.gated, cands |-> r.cands,
     best |-> r.best, prev_count |-> s.accident_frame_count]

MotionFrame ==
    /\ obs.frames < MaxMotionFrames
    /\ \E f \in MotionFrames :
          LET r == motion_process_frame(zp, trk, f, now) IN
          /\ zp' = r.s
          /\ trk' = r.ma
          /\ events' = r.ev
          /\ obs' = observe_motion(obs, zp, trk, f, r, now)
    /\ UNCHANGED <<now, focus>>
    /\ UNCHANGED <<cm, eng, ahc, wpn, gal, wk>>

MotionTick ==
    /\ now < StartClock + MaxMotionClock
    /\ now' = now + 1
    /\ UNCHANGED <<zp, focus, events, obs, trk>>
    /\ UNCHANGED <<cm, eng, ahc, wpn, gal, wk>>

MotionNext == MotionFrame \/ MotionTick

SpecMotion == MotionInit /\ [][MotionNext]_vars

\* --- the gate-accident scenario: a vehicle drives up to a standing person --------------

MaxScenarioFrames == 14     \* frames of the run, one a second

\* positions the vehicle may have on frames 2 and 3 on its way from 100 to 300
ScenarioXs == {100, 102, 110, 200, 300}

\* frame k of the scenario: the vehicle at 100 on frame 1, at x2 and x3 on frames
\* 2 and 3, at 300 from frame 4 on; the person at 320; the boxes overlap by IoU
\* 0.2 from frame 3 on
scenario_frame(k, sc) ==
    [vehicles |-> {[object_id |-> 1,
                    x |-> CASE k = 1 -> 100 [] k = 2 -> sc.x2 [] k = 3 -> sc.x3
                            [] OTHER -> 300,
                    confidence |-> sc.vehicle_confidence]},
     persons |-> {[object_id |-> 9, x |-> PersonX, confidence |-> sc.person_confidence]},
     iou |-> [vid \in VehicleIds |-> IF vid = 1 /\ k >= 3 THEN 20 ELSE 0],
     collapse |-> FALSE]

\* obs: the scenario, the frames processed, and for each gate_accident returned
\* the frame, the signal and the confidence (not program state)
ScenarioInit ==
    /\ now = StartClock
    /\ zp = NewProcessor("outgate")
    /\ focus = "gate_accident"
    /\ events = <<>>
    /\ trk = NewMotionAnalyzer
    /\ \E x2 \in ScenarioXs, x3 \in ScenarioXs, vc \in {50, 80}, pc \in {40, 60} :
          /\ x2 <= x3
          /\ obs = [sc |-> [x2 |-> x2, x3 |-> x3, vehicle_confidence |-> vc,
                            person_confidence |-> pc],
                    frames |-> 0, emitted |-> <<>>]
    /\ CooldownIdle /\ EngineIdle /\ AfterHoursIdle
    /\ WeaponIdle /\ GalleryIdle /\ WorkerIdle

\* the next frame of the scenario through process_frame; frames are 1 s apart
ScenarioFrame ==
    /\ obs.frames < MaxScenarioFrames
    /\ LET k == obs.frames + 1
           r == motion_process_frame(zp, trk, scenario_frame(k, obs.sc), now)
       IN /\ zp' = r.s
          /\ trk' = r.ma
          /\ events' = r.ev
          /\ obs' = [obs EXCEPT !.frames = k,
                                !.emitted = IF r.ev = <<>> THEN @
                                            ELSE Append(@, [frame |-> k, t |-> now,
                                                            signal |-> r.best.signal,
                                                            confidence |-> r.ev[1].confidence])]
    /\ now' = now + 1
    /\ UNCHANGED focus
    /\ UNCHANGED <<cm, eng, ahc, wpn, gal, wk>>

ScenarioNext == ScenarioFrame

SpecScenario == ScenarioInit /\ [][ScenarioNext]_vars

\* --- the two fight checks of corridor, school_ground and classroom --------------------

\* What the checks read of the first pair of persons of a frame: the persons'
\* confidences, whether both have a pose, whether the wrist speed and the
\* distance pass the pose thresholds, whether the boxes overlap above
\* FIGHT_OVERLAP_THRESHOLD
FightPairs ==
    [c1 : {40, 60}, c2 : {50}, posed : BOOLEAN, striking : BOOLEAN,
     overlapping : BOOLEAN]

BBOX_FIGHT_MIN_AVG_CONFIDENCE == 50         \* "if avg_conf >= 0.5"

avg_conf(pair) == (pair.c1 + pair.c2) \div 2

\* variant of the pose check with the confidence test of the bbox check
pose_fight_check_confident(pair) ==
    IF pair.posed /\ pair.striking /\ avg_conf(pair) >= BBOX_FIGHT_MIN_AVG_CONFIDENCE
    THEN [mode |-> "pose", confidence |-> avg_conf(pair)]
    ELSE NoFight

\* _pose_fight_check(persons, poses): a candidate when both persons have
\* keypoints, the wrist is fast and the persons are close
pose_fight_check(pair) ==
    IF pair.posed /\ pair.striking
    THEN [mode |-> "pose", confidence |-> avg_conf(pair)]
    ELSE NoFight

\* _bbox_fight_check(persons): a candidate when the boxes overlap and the
\* average confidence is 0.5 or more
bbox_fight_check(pair) ==
    IF pair.overlapping /\ avg_conf(pair) >= BBOX_FIGHT_MIN_AVG_CONFIDENCE
    THEN [mode |-> "bbox", confidence |-> avg_conf(pair)]
    ELSE NoFight

\* _detect_fight: the pose check first, the bbox check when it finds nothing
fight_check(pair) ==
    IF pose_fight_check(pair).mode # "none" THEN pose_fight_check(pair)
    ELSE bbox_fight_check(pair)

\* obs: the frames in a row, up to the last one, on which a check found a
\* candidate pair, and the pair of the last frame (not program state)
NoFightObs == [run |-> 0, pair |-> [c1 |-> 0, c2 |-> 0, posed |-> FALSE,
                                    striking |-> FALSE, overlapping |-> FALSE],
               frames |-> 0]

FightInit ==
    /\ now = StartClock
    /\ zp \in {NewProcessor(z) : z \in {"corridor", "school_ground", "classroom"}}
    /\ focus = "fight"
    /\ events = <<>>
    /\ obs = NoFightObs
    /\ CooldownIdle /\ EngineIdle /\ TrackerIdle /\ AfterHoursIdle
    /\ WeaponIdle /\ GalleryIdle /\ WorkerIdle

\* one frame with two persons through process_frame
FightFrame ==
    /\ \E pair \in FightPairs :
          LET f == [EmptyFrame EXCEPT !.persons = 2, !.fight = fight_check(pair)]
              r == process_frame(zp, f, now)
          IN /\ CountersWithin(r.s)
             /\ zp' = r.s
             /\ events' = r.ev
             /\ obs' = [run |-> IF fight_check(pair).mode = "none" THEN 0
                                ELSE Min(obs.run + 1, MaxFrameCount),
                        pair |-> pair, frames |-> Min(obs.frames + 1, MaxFrameCount)]
    /\ UNCHANGED <<now, focus>>
    /\ UNCHANGED <<cm, eng, trk, ahc, wpn, gal, wk>>

FightNext == FightFrame \/ CountersTick

SpecFight == FightInit /\ [][FightNext]_vars

\* --- POST /event: receive_event over process_event -------------------------------------

MaxIngest == 3          \* events one run posts

\* the event types the zone processors and the after-hours filter produce
PipelineEventTypes ==
    {"vehicle_detected", "gate_accident", "crowd_formation", "fight", "mobile_usage",
     "weapon_detected", "fire_smoke_detected", "fall_detected", "after_hours_intrusion"}

IngestConfidences == {50, 100}

\* receive_event(event): result = process_event(event); if result["incident"]:
\* the alert is recorded in alerts_history and put on alert_broadcast_queue.
\* n counts the events received, streak the latest ones of the last event's type
\* (not program state)
receive_event(st, event) ==
    LET r == process_event(st.recent, event) IN
    [recent |-> r.recent,
     alerts_history |-> IF r.result.incident THEN Append(st.alerts_history, event.event_type)
                        ELSE st.alerts_history,
     alert_broadcast_queue |-> IF r.result.incident
                               THEN Append(st.alert_broadcast_queue, event.event_type)
                               ELSE st.alert_broadcast_queue,
     result |-> r.result,
     event |-> event,
     n |-> st.n + 1,
     streak |-> IF event.event_type = st.event.event_type THEN st.streak + 1 ELSE 1]

IngestInit ==
    /\ now = StartClock
    /\ eng = [recent |-> [k \in EngineKeys |-> <<>>], alerts_history |-> <<>>,
              alert_broadcast_queue |-> <<>>, result |-> NoResult,
              event |-> [tenant_id |-> "school1", camera_id |-> "cam1",
                         event_type |-> "", confidence |-> 0, timestamp |-> 0],
              n |-> 0, streak |-> 0]
    /\ ZoneIdle /\ CooldownIdle /\ TrackerIdle /\ AfterHoursIdle
    /\ WeaponIdle /\ GalleryIdle /\ WorkerIdle

ReceiveEvent ==
    /\ eng.n < MaxIngest
    /\ \E e \in PipelineEventTypes, c \in IngestConfidences :
          eng' = receive_event(eng, [tenant_id |-> "school1", camera_id |-> "cam1",
                                     event_type |-> e, confidence |-> c,
                                     timestamp |-> now])
    /\ UNCHANGED now
    /\ UNCHANGED <<zp, focus, events, obs, cm, trk, ahc, wpn, gal, wk>>

IngestNext == ReceiveEvent

SpecIngest == IngestInit /\ [][IngestNext]_vars

\* --- zone processor, worker cooldown and event engine in a row -------------------------

MaxComposedClock == 16      \* seconds one run lasts

\* the fight evidence of a frame with two persons: none, a pose candidate of
\* confidence 0.7, a bbox candidate of confidence 0.9
ComposedFights == {NoFight, [mode |-> "pose", confidence |-> 70],
                   [mode |-> "bbox", confidence |-> 90]}

FightKey == <<"school1", "cam1", "fight">>

\* _process_loop on the events of one frame: each event that should_emit lets
\* through is formatted and posted, and the backend runs process_event on it.
\* st: the cooldown manager's _state, the engine's _recent_events, the times of
\* the events posted and whether a payload said incident (the last two are not
\* program state)
RECURSIVE send_events(_, _, _)
send_events(st, evs, t) ==
    IF evs = <<>> THEN st
    ELSE LET ev == Head(evs)
             se == should_emit(st.state, "cam1", ev.event_type, ev.confidence, t)
             pe == process_event(st.recent,
                                 [tenant_id |-> "school1", camera_id |-> "cam1",
                                  event_type |-> ev.event_type,
                                  confidence |-> ev.confidence, timestamp |-> t])
         IN send_events(IF se.emit
                        THEN [state |-> se.state, recent |-> pe.recent,
                              posted |-> Append(st.posted, t),
                              incident |-> st.incident \/ pe.result.incident]
                        ELSE [st EXCEPT !.state = se.state],
                        Tail(evs), t)

ComposedInit ==
    /\ now = StartClock
    /\ zp \in {NewProcessor(z) : z \in {"corridor", "school_ground", "classroom"}}
    /\ focus = "fight"
    /\ events = <<>>
    /\ obs = NoObs
    /\ cm = [state |-> [k \in {<<"cam1", "fight">>} |-> NoEntry]]
    /\ eng = [recent |-> [k \in EngineKeys |-> <<>>], posted |-> <<>>,
              incident |-> FALSE]
    /\ TrackerIdle /\ AfterHoursIdle /\ WeaponIdle /\ GalleryIdle /\ WorkerIdle

\* one pass of the worker's loop: the frame through the pipeline, its events
\* through the cooldown manager and on to the backend
ComposedFrame ==
    /\ \E fight \in ComposedFights :
          LET r == process_frame(zp, [EmptyFrame EXCEPT !.persons = 2,
                                                        !.fight = fight], now)
              st == send_events([state |-> cm.state, recent |-> eng.recent,
                                 posted |-> eng.posted, incident |-> eng.incident],
                                r.ev, now)
          IN /\ zp' = r.s
             /\ events' = r.ev
             /\ cm' = [state |-> st.state]
             /\ eng' = [recent |-> st.recent, posted |-> st.posted,
                        incident |-> st.incident]
    /\ UNCHANGED <<now, focus, obs>>
    /\ UNCHANGED <<trk, ahc, wpn, gal, wk>>

ComposedTick ==
    /\ now < StartClock + MaxComposedClock
    /\ now' = now + 1
    /\ UNCHANGED <<zp, focus, events, obs, cm, eng>>
    /\ UNCHANGED <<trk, ahc, wpn, gal, wk>>

ComposedNext == ComposedFrame \/ ComposedTick

SpecComposed == ComposedInit /\ [][ComposedNext]_vars

\* --- the worker's emission: should_emit, then the POST -----------------------------------

MaxDeliveries == 3      \* events one run hands to the cooldown manager

PostOutcomes == {"post_200", "post_500", "post_timeout", "post_connection_error"}

DeliveryKey == <<"cam1", "mobile_usage">>

\* variant of the emission that takes the stamp back when the POST fails
after_send_rolled_back(before, stamped, outcome) ==
    IF outcome = "post_200" THEN stamped ELSE before

\* _state once _send_event has returned: _send_event logs the status or the
\* exception and touches nothing; before is _state as should_emit found it
after_send(before, stamped, outcome) == stamped

\* requests.post calls _send_event makes for one event
post_attempts(outcome) == 1

\* obs: the last call (its confidence, its time, whether it was let through and
\* how its POST ended), the failed POSTs so far, the POST calls made and the
\* events let through (not program state)
NoDelivery ==
    [calls |-> 0, confidence |-> 0, t |-> NoTime, emit |-> FALSE, outcome |-> "none",
     failed_before |-> {}, failed |-> {}, posts |-> 0, passed |-> 0, delivered |-> 0]

DeliveryInit ==
    /\ now = StartClock
    /\ cm = [state |-> [k \in {DeliveryKey} |-> NoEntry]]
    /\ obs = NoDelivery
    /\ zp = NewProcessor("outgate") /\ focus = "mobile_usage" /\ events = <<>>
    /\ EngineIdle /\ TrackerIdle /\ AfterHoursIdle
    /\ WeaponIdle /\ GalleryIdle /\ WorkerIdle

\* _process_loop on one event of a frame: should_emit, then _send_event
DeliverEvent ==
    /\ obs.calls < MaxDeliveries
    /\ \E c \in CooldownConfidences, outcome \in PostOutcomes :
          LET se == should_emit(cm.state, "cam1", "mobile_usage", c, now)
              failed == se.emit /\ outcome # "post_200"
          IN /\ (~se.emit => outcome = "post_200")
             /\ cm' = [state |-> IF se.emit THEN after_send(cm.state, se.state, outcome)
                                 ELSE se.state]
             /\ obs' = [calls |-> obs.calls + 1, confidence |-> c, t |-> now,
                        emit |-> se.emit,
                        outcome |-> IF se.emit THEN outcome ELSE "none",
                        failed_before |-> obs.failed,
                        failed |-> IF failed
                                   THEN obs.failed \cup {[t |-> now, confidence |-> c]}
                                   ELSE obs.failed,
                        posts |-> IF se.emit THEN obs.posts + post_attempts(outcome)
                                  ELSE obs.posts,
                        passed |-> IF se.emit THEN obs.passed + 1 ELSE obs.passed,
                        delivered |-> IF se.emit /\ outcome = "post_200"
                                      THEN obs.delivered + 1 ELSE obs.delivered]
    /\ UNCHANGED <<now, zp, focus, events>>
    /\ UNCHANGED <<eng, trk, ahc, wpn, gal, wk>>

DeliveryTick ==
    /\ now < StartClock + get_cooldown("mobile_usage") + ClockSlack
    /\ now' = now + 1
    /\ UNCHANGED <<zp, focus, events, obs, cm>>
    /\ UNCHANGED <<eng, trk, ahc, wpn, gal, wk>>

DeliveryNext == DeliverEvent \/ DeliveryTick

SpecDelivery == DeliveryInit /\ [][DeliveryNext]_vars
-----------------------------------------------------------------------------
(* Claims about the zone processors (SpecZone) *)

\* C1: over any sequence of _update_suspicion calls (any event type, detected
\* or not, every increment and decay the processors use) each stored suspicion
\* score stays within [0, 1].
C1_SuspicionBounded ==
    \A e \in EventTypes :
        zp.suspicion_scores[e] >= 0 /\ zp.suspicion_scores[e] <= 100

\* C1 witness: a score has been driven into the upper clamp and another frame
\* decayed a score that was already 0.
C1_Witness ==
    /\ zp.suspicion_scores[focus] = 100
    /\ \E e \in EventTypes : e # focus /\ zp.suspicion_scores[e] = 0
    /\ zp.weapon_frame_count + zp.fire_smoke_frame_count + zp.fight_frame_count
         + zp.fall_frame_count + zp.accident_frame_count > 0

\* C2: an event of a counter-gated type is returned only on a frame whose
\* counter has reached the type's minimum and whose suspicion has reached the
\* type's threshold: weapon (2, 0.5), fire/smoke (2, 0.45), vehicle (2, 0.4),
\* gate accident, fight and fall (3, 0.6).
C2_EmissionGated ==
    \A i \in DOMAIN events :
        LET ev == events[i]
            t  == ev.event_type
        IN /\ t = "weapon_detected" => ev.frame_count >= 2 /\ ev.suspicion >= 50
           /\ t = "fire_smoke_detected" => ev.frame_count >= 2 /\ ev.suspicion >= 45
           /\ t = "vehicle_detected" => ev.frame_count >= 2 /\ ev.suspicion >= 40
           /\ t \in {"gate_accident", "fight", "fall_detected"}
                => ev.frame_count >= 3 /\ ev.suspicion >= 60

\* C2 witness: a vehicle event returned exactly at its gate (second frame,
\* suspicion 0.4).
C2_Witness ==
    \E i \in DOMAIN events :
        /\ events[i].event_type = "vehicle_detected"
        /\ events[i].frame_count = 2
        /\ events[i].suspicion = 40

\* C4: within one processor two returned events of the same type are at least
\* the type's cooldown apart (weapon 10, fire/smoke 10, fight 8, gate accident 8,
\* crowd 6, fall 6, vehicle 5, mobile 4 seconds); in school_ground across the
\* shared and the COCO-fallback weapon paths together.
C4_CooldownSpacing ==
    \A e \in EventTypes :
        LET c == CASE e \in {"weapon_detected", "fire_smoke_detected"} -> 10
                   [] e \in {"fight", "gate_accident"} -> 8
                   [] e \in {"crowd_formation", "fall_detected"} -> 6
                   [] e = "vehicle_detected" -> 5
                   [] e = "mobile_usage" -> 4
        IN obs.gap[e] = NoTime \/ obs.gap[e] >= c

\* C4 witness: school_ground returned a weapon event from the shared path and
\* one from the COCO fallback, the latest two exactly 10 s apart.
C4_Witness ==
    /\ zp.zone_name = "school_ground"
    /\ obs.sources["weapon_detected"] = {"weapon_model", "coco_fallback"}
    /\ obs.gap["weapon_detected"] = 10

-----------------------------------------------------------------------------
(* Claims about EventCooldownManager (SpecCooldown) *)

\* C3: should_emit emits the first attempt for a key; a later attempt at t1 with
\* confidence new_conf, the key holding (t0, last_conf), is suppressed exactly
\* when t1 - t0 < cooldown and new_conf <= last_conf * 1.10; the stored
\* (time, confidence) becomes (t1, new_conf) on emit and stays otherwise, and no
\* other key changes.
C3_ShouldEmitRule ==
    cm.call.t # NoTime =>
        LET k == cm.call
            c == IF cm.event_type = "mobile_usage" THEN 4 ELSE 10
        IN /\ k.before = NoEntry => k.emit
           /\ k.before # NoEntry =>
                (~k.emit <=> /\ k.t - k.before.last_time < c
                             /\ k.confidence * 100 <= k.before.last_confidence * 110)
           /\ k.after = IF k.emit
                        THEN [last_time |-> k.t, last_confidence |-> k.confidence]
                        ELSE k.before
           /\ k.others_kept

\* C3 witness: a mobile_usage attempt one second before the cooldown ends and at
\* exactly 1.10 times the stored confidence was suppressed.
C3_Witness ==
    /\ cm.event_type = "mobile_usage"
    /\ cm.call.t # NoTime
    /\ ~cm.call.emit
    /\ cm.call.before.last_confidence = 50
    /\ cm.call.confidence = 55
    /\ cm.call.t - cm.call.before.last_time = 3

-----------------------------------------------------------------------------
(* Claims about the event engine (SpecEngine) *)

\* C5: for a configured event type process_event returns incident = true exactly
\* when the key's window, after the event is appended and the window pruned,
\* holds at least min_frames entries whose mean confidence is at least the
\* threshold.
C5_IncidentIffWindow ==
    eng.result.configured =>
        LET w   == eng.recent[eng.result.key]
            cfg == EVENT_CONFIG[eng.event_type]
        IN eng.result.incident <=>
              /\ Len(w) >= cfg.min_frames
              /\ confidence_sum(w) >= cfg.threshold * Len(w)

\* C5 witness: a fight incident on a window of exactly three entries whose mean
\* is exactly 0.65, two of them not at 0.65.
C5_Witness ==
    /\ eng.event_type = "fight"
    /\ eng.result.configured
    /\ eng.result.incident
    /\ Len(eng.recent[eng.result.key]) = 3
    /\ confidence_sum(eng.recent[eng.result.key]) = 195
    /\ eng.recent[eng.result.key][1].confidence = 50

-----------------------------------------------------------------------------
(* Claims about SimpleTracker (SpecTracker) *)

\* C6 as stated: while every object is detected on every frame and no centre
\* moves more than 100 px between frames, update returns every object under the
\* id it was first given.
C6_StableIds ==
    trk.calm \in {"apart", "close"} =>
        \A o \in 1 .. trk.n : trk.last[o] = trk.first[o]

\* C6 amended: the same, for runs in which, in addition, every object's new
\* centre is more than 100 px away from the previous centre of every other
\* object (always so for a single object).
C6_StableIdsApart ==
    trk.calm = "apart" =>
        \A o \in 1 .. trk.n : trk.last[o] = trk.first[o]

\* C6 witness: two objects, kept apart, one of which has moved by exactly 100 px
\* after it was first seen, both still under their first ids.
C6_Witness ==
    /\ trk.n = 2
    /\ trk.calm = "apart"
    /\ trk.moved
    /\ \A o \in 1 .. trk.n : trk.last[o] # NoId /\ trk.last[o] = trk.first[o]

\* an id is in the tracker exactly while it has gone at most 10 updates in a row
\* without a detection
PurgedAfterTen ==
    \A i \in trk.seen \cup trk.fresh :
        trk.tracker.objects[i].present <=> trk.misses[i] <= 10

-----------------------------------------------------------------------------
(* Claims about AfterHoursChecker (SpecAfterHours) *)

\* C8 as stated: passing a list through filter a second time (same zone, same
\* timestamp) leaves it as the first pass returned it: same flags, same
\* confidences, no further after_hours_intrusion event.
C8_FilterIdempotent ==
    ahc.passes = 2 => ahc.events = ahc.once

-----------------------------------------------------------------------------
(* Claims about WeaponDetector (SpecWeapon) *)

\* C9: no detection returned by detect has a box area above 40 % of the frame
\* area, whichever model reported it.
C9_AreaFilter ==
    \A i \in DOMAIN wpn.out :
        box_area(wpn.out[i].bbox) * 100 <= wpn.frame_area * 40

\* C9 witness: on a frame where a model reported a box above 40 %, detect returned
\* a weapon-model detection and a gun-model detection, one of them at exactly
\* 40 % of the frame.
C9_Witness ==
    /\ wpn.oversize
    /\ \E i \in DOMAIN wpn.out : wpn.out[i].model = "weapon_model"
    /\ \E i \in DOMAIN wpn.out :
          /\ wpn.out[i].model = "gun_model"
          /\ box_area(wpn.out[i].bbox) * 100 = wpn.frame_area * 40

-----------------------------------------------------------------------------
(* Claims about PersonGallery (SpecGallery) *)

\* C10 as stated: match_or_register never returns the id of an entry last seen
\* more than 120 s before the call; an embedding equal to such an entry's gets a
\* new id; an embedding equal to a live entry's gets that entry's id.
C10_ExpiredNeverReturned ==
    gal.call.id # 0 =>
        /\ gal.call.id \notin gal.call.stale
        /\ gal.call.stale_same # {} => gal.call.id \notin gal.call.known
        /\ gal.call.live_same # {} => gal.call.id \in gal.call.live_same

\* C10 amended: the same, the new id being promised to an embedding equal to an
\* expired entry's only when no live entry is similar to it at 0.65 or above (a
\* live entry that is gets its own id returned).
C10_ExpiredNeverReturnedUnlessMatch ==
    gal.call.id # 0 =>
        /\ gal.call.id \notin gal.call.stale
        /\ (gal.call.stale_same # {} /\ ~gal.call.live_match)
              => gal.call.id \notin gal.call.known
        /\ gal.call.live_same # {} => gal.call.id \in gal.call.live_same

\* C10 witness: while another entry was live, an embedding equal to an expired
\* entry's was registered under a new id.
C10_Witness ==
    /\ gal.call.stale_same # {}
    /\ gal.call.id \notin gal.call.known
    /\ gal.call.stale # gal.call.known


-----------------------------------------------------------------------------
(* Claims about _update_suspicion called directly (SpecSuspicion) *)

\* C11: a detected=true call leaves the score at min(1, old + increment), a
\* detected=false call at max(0, old - decay); after k detected=true calls in a
\* row with one increment on a fresh processor the score is min(1, k * increment).
C11_UpdateRule ==
    obs.called =>
        LET score == zp.suspicion_scores[focus]
            up    == obs.before + obs.increment
            down  == obs.before - obs.decay
        IN /\ obs.detected => score = (IF up > 100 THEN 100 ELSE up)
           /\ ~obs.detected => score = (IF down < 0 THEN 0 ELSE down)
           /\ obs.k > 0 =>
                score = (IF obs.k * obs.inc0 > 100 THEN 100 ELSE obs.k * obs.inc0)

\* C11 witness: the fourth detected=true call in a row with increment 0.30 found
\* the score at 0.90 and left it at 1.0, not 1.2.
C11_Witness ==
    /\ obs.called /\ obs.detected
    /\ obs.k = 4 /\ obs.inc0 = 30
    /\ obs.before = 90
    /\ zp.suspicion_scores[focus] = 100

-----------------------------------------------------------------------------
(* Claims about the frame counters (SpecCounters) *)

\* a counter stands at 0 after every frame that did not qualify for it
ResetWhenNotQualifying(c) ==
    (obs.acted /\ ~obs.qualifying[c]) => frame_counter(zp, c) = 0

\* a counter does not go down on a qualifying frame that returned no event of its type
GrowsWhileQualifying(c) ==
    (obs.acted /\ obs.qualifying[c] /\ CountOf(events, GatedType(c)) = 0)
        => frame_counter(zp, c) >= obs.before[c]

\* C12 as stated: every counter behind a min-frames gate, the temporal buffer's
\* vehicle_detected counter included, never goes down within a run of consecutive
\* qualifying frames (up to the event the run returns) and is 0 after every
\* non-qualifying frame.
C12_CountersConsecutive ==
    \A c \in CountersOf(zp.zone_name) :
        ResetWhenNotQualifying(c) /\ GrowsWhileQualifying(c)

-----------------------------------------------------------------------------
(* Further claims about AfterHoursChecker (SpecAfterHours) *)

\* C13: one pass of filter over a list holding one fight event of confidence c.
\* After hours in corridor, classroom or school_ground the fight event comes back
\* flagged after_hours with confidence min(1.0, 1.5 c) and the list holds exactly
\* one after_hours_intrusion event, of confidence 0.90 and at most 4 boxes; during
\* school hours no intrusion event is added and every confidence is unchanged;
\* for outgate no intrusion event is added.
C13_AfterHoursSynthesis ==
    LET fights    == {i \in DOMAIN ahc.given : ahc.given[i].event_type = "fight"}
        intrusion == {i \in DOMAIN ahc.events :
                         ahc.events[i].event_type = "after_hours_intrusion"}
        late      == ahc.timestamp < 27000 \/ ahc.timestamp > 61200
        f         == CHOOSE i \in fights : TRUE
    IN (ahc.passes = 1 /\ Cardinality(fights) = 1) =>
          /\ (late /\ ahc.zone \in {"corridor", "classroom", "school_ground"}) =>
                /\ ahc.events[f].event_type = "fight"
                /\ ahc.events[f].after_hours = "true"
                /\ ahc.events[f].confidence * 100 =
                      (IF 150 * ahc.given[f].confidence > 10000 THEN 10000
                       ELSE 150 * ahc.given[f].confidence)
                /\ Cardinality(intrusion) = 1
                /\ \A i \in intrusion : /\ ahc.events[i].confidence = 90
                                        /\ ahc.events[i].boxes <= 4
          /\ ~late =>
                /\ intrusion = {}
                /\ Len(ahc.events) = Len(ahc.given)
                /\ \A i \in DOMAIN ahc.given :
                      ahc.events[i].confidence = ahc.given[i].confidence
          /\ ahc.zone = "outgate" => intrusion = {}

\* C13 witness: one second before school starts, in the corridor, a list of a
\* full-confidence fight event and a second event, three boxes each, came back
\* with the fight event still at 1.0 and one intrusion event carrying 4 boxes.
C13_Witness ==
    /\ ahc.passes = 1
    /\ ahc.zone = "corridor" /\ ahc.timestamp = 26999
    /\ Len(ahc.given) = 2 /\ Len(ahc.events) = 3
    /\ ahc.given[1].event_type = "fight" /\ ahc.given[1].confidence = 100
    /\ ahc.given[2].event_type # "fight"
    /\ ahc.events[1].confidence = 100
    /\ ahc.events[3].event_type = "after_hours_intrusion"
    /\ ahc.events[3].boxes = 4
-----------------------------------------------------------------------------
(* C14: the fire_smoke scenario of the event engine *)

\* the stream is k events into the scenario, on a fire_smoke key
FireScenario(k) ==
    /\ eng.scenario.stage = k
    /\ eng.scenario.key[3] = "fire_smoke"

ThirdCallIsCriticalIncident ==
    FireScenario(3) =>
        /\ eng.result.incident
        /\ eng.result.priority = "critical"
        /\ eng.result.frames_considered = 3

\* C14 as stated: three fire_smoke events for one key within 3 s at confidence
\* 0.8 make the third call return incident=true, priority=critical, and a fourth
\* event for the key 5 s later returns incident=false
C14_FourthCallNoIncident ==
    /\ ThirdCallIsCriticalIncident
    /\ FireScenario(4) => ~eng.result.incident

\* C14: three fire_smoke events for one key within 3 s at confidence 0.8 make the
\* third call return incident=true, priority=critical over a window of three; a
\* fourth event for the key 5 s later leaves itself alone in the window, and
\* since one frame is enough for fire_smoke the call returns incident=true
\* exactly when that event's confidence is at least 0.75
C14_FireSmokeScenario ==
    /\ ThirdCallIsCriticalIncident
    /\ FireScenario(4) =>
          /\ eng.recent[eng.scenario.key] =
                <<[ts |-> eng.ts, confidence |-> eng.confidence]>>
          /\ eng.result.priority = "critical"
          /\ eng.result.incident <=>
                eng.confidence >= EVENT_CONFIG["fire_smoke"].threshold

C14_Witness ==
    /\ eng.scenario.stage = 4
    /\ eng.scenario.key = <<"school1", "cam1", "fire_smoke">>
    /\ eng.ts = 7
    /\ eng.confidence = 80
    /\ eng.result.incident
    /\ eng.result.frames_considered = 1

\* the fourth event under the threshold: the reset window gives no incident
C14_WitnessBelow ==
    /\ eng.scenario.stage = 4
    /\ eng.scenario.key[3] = "fire_smoke"
    /\ eng.confidence = 70
    /\ ~eng.result.incident
-----------------------------------------------------------------------------
(* C15: an unconfigured event type leaves the engine state alone *)

\* the last process_event call was for a type that is not in EVENT_CONFIG
UnknownTypeProcessed ==
    /\ eng.n > 0
    /\ eng.type \notin DOMAIN EVENT_CONFIG

\* C15: process_event for a type that is not in EVENT_CONFIG returns
\* incident=false, creates no key in _recent_events and modifies no window
C15_UnknownTypeNoUpdate ==
    UnknownTypeProcessed =>
        /\ ~eng.result.incident
        /\ ~eng.result.configured
        /\ eng.kept
        /\ <<eng.result.key[1], eng.result.key[2], eng.type>> \notin eng.keys
        /\ eng.recent[<<eng.result.key[1], eng.result.key[2], eng.type>>] = <<>>

\* an unconfigured event arrives on a camera whose fight window holds two frames
C15_Witness ==
    /\ UnknownTypeProcessed
    /\ eng.type = "weapon_detected"
    /\ eng.result.key = <<"school1", "cam1", "weapon_detected">>
    /\ Len(eng.recent[<<"school1", "cam1", "fight">>]) = 2
    /\ eng.keys = {<<"school1", "cam1", "fight">>}
    /\ eng.kept
-----------------------------------------------------------------------------
(* C16: the buffer of a key after process_event *)

\* the buffer of the key just processed holds at most 64 entries, none of them
\* more than window_sec older than the event just processed
BufferWithinWindow ==
    (eng.n > 0 /\ eng.type \in DOMAIN EVENT_CONFIG) =>
        LET buf == eng.recent[eng.result.key]
        IN /\ Len(buf) <= DEQUE_MAXLEN
           /\ \A i \in 1 .. Len(buf) :
                 eng.ts - buf[i].ts <= EVENT_CONFIG[eng.type].window_sec

\* C16: after every process_event call for a configured type the buffer of the
\* key holds at most 64 entries and only entries within window_sec of the event
\* just processed, whatever the order in which timestamps arrive
C16_BufferWithinWindow == BufferWithinWindow

\* the same for streams whose timestamps never go back
C16_InOrderWithinWindow == eng.in_order => BufferWithinWindow
-----------------------------------------------------------------------------
(* C17: WeaponDetector disables itself after three failures in a row *)

\* C17: the detector is disabled exactly when three inference exceptions have
\* occurred with no successful detect (and no reset) between them; a detect call
\* on a disabled detector returns the empty list, invokes no model and leaves the
\* detector disabled; reset re-enables it with the failure count at 0
C17_DisabledAfterThreeFailures ==
    /\ wpn.wd.disabled <=> wpn.call.streak >= MAX_CONSECUTIVE_FAILURES
    /\ wpn.wd.consecutive_failures = wpn.call.streak
    /\ (wpn.call.op = "detect" /\ wpn.call.was_disabled) =>
          /\ wpn.out = <<>>
          /\ ~wpn.call.invoked
          /\ wpn.wd.disabled
    /\ (wpn.call.op = "detect" /\ wpn.call.invoked /\ wpn.call.streak = 0) =>
          wpn.wd.consecutive_failures = 0
    /\ wpn.call.op = "reset" =>
          /\ ~wpn.wd.disabled
          /\ wpn.wd.consecutive_failures = 0

\* the third failure in a row has just disabled the detector
C17_Witness ==
    /\ wpn.call.op = "detect"
    /\ ~wpn.call.was_disabled
    /\ wpn.call.invoked
    /\ wpn.call.streak = 3
    /\ wpn.wd.disabled

\* a detect call on the disabled detector
C17_WitnessDisabledCall ==
    /\ wpn.call.op = "detect"
    /\ wpn.call.was_disabled
    /\ wpn.wd.disabled

\* one failure after a reset of the disabled detector
C17_WitnessAfterReset ==
    /\ wpn.call.op = "detect"
    /\ wpn.call.streak = 1
    /\ ~wpn.wd.disabled
    /\ wpn.out = <<>>
    /\ wpn.call.invoked
-----------------------------------------------------------------------------
(* C18: the cooldown EventCooldownManager applies per event type *)

\* the table as stated, with the given number of seconds for an unlisted type
StatedCooldown(event_type, unlisted) ==
    CASE event_type = "weapon_detected"     -> 10
      [] event_type = "fire_smoke_detected" -> 10
      [] event_type = "fight"               -> 8
      [] event_type = "gate_accident"       -> 8
      [] event_type = "crowd_formation"     -> 6
      [] event_type = "fall_detected"       -> 6
      [] event_type = "vehicle_detected"    -> 5
      [] event_type = "mobile_usage"        -> 4
      [] OTHER                              -> unlisted

\* a repeated event of unchanged confidence is emitted exactly when the stated
\* cooldown has passed since the last emission of its key
AppliesCooldown(unlisted) ==
    (cm.call.t # NoTime /\ cm.call.before # NoEntry) =>
        (cm.call.emit <=>
            cm.call.t - cm.call.before.last_time
                >= StatedCooldown(cm.event_type, unlisted))

\* C18 as stated: the manager applies weapon_detected 10 s, fire_smoke_detected
\* 10 s, fight 8 s, gate_accident 8 s, crowd_formation 6 s, fall_detected 6 s,
\* vehicle_detected 5 s, mobile_usage 4 s, and 5 s to a type not in the table
C18_UnlistedFiveSeconds ==
    /\ cm.call.t # NoTime =>
          get_cooldown(cm.event_type) = StatedCooldown(cm.event_type, 5)
    /\ AppliesCooldown(5)

\* C18: the manager applies weapon_detected 10 s, fire_smoke_detected 10 s,
\* fight 8 s, gate_accident 8 s, crowd_formation 6 s, fall_detected 6 s,
\* vehicle_detected 5 s, mobile_usage 4 s, and EVENT_COOLDOWN_SECONDS = 10 s to a
\* type not in the table
C18_CooldownTable ==
    /\ cm.call.t # NoTime =>
          get_cooldown(cm.event_type) = StatedCooldown(cm.event_type, 10)
    /\ AppliesCooldown(10)

\* an after_hours_intrusion event 7 s after the last one is suppressed
C18_Witness ==
    /\ cm.event_type = "after_hours_intrusion"
    /\ cm.call.before # NoEntry
    /\ cm.call.t - cm.call.before.last_time = 7
    /\ ~cm.call.emit
-----------------------------------------------------------------------------
(* C19, C20: SimpleTracker ids and classes *)

\* no two objects of the frame were returned under one id
DistinctInFrame ==
    \A o \in SceneObjects, p \in SceneObjects :
        (o # p /\ trk.last[o] # NoId) => trk.last[o] # trk.last[p]

\* C19: over any sequence of update and reset_tracker calls, no id is given at
\* registration to two distinct objects of the camera, and two objects returned
\* in the same frame never share an id
C19_IdsNeverReused ==
    /\ \A p \in trk.ever, q \in trk.ever : p[1] = q[1] => p[2] = q[2]
    /\ DistinctInFrame

\* between two resets an id given to a newly registered object is one that no
\* object had since the last reset
C19_IdsNeverReusedSinceReset ==
    /\ trk.fresh \cap trk.seen = {}
    /\ DistinctInFrame

\* C20: update never gives a tracked object the detection of another class: an
\* object is returned with the class_name it was registered with
C20_ClassConsistent ==
    \A i \in returned_ids(trk.tracker) :
        trk.tracker.objects[i].class_name = trk.born[i]

\* --- C26 ----------------------------------------------------------------------
\* C26: increment_event stamps the start time on every step of the counter from
\* 0 to 1, the first increment after reset_event included: whenever the counter is
\* 1 or more a start time is recorded and get_event_duration is the time elapsed
\* since the counter left 0.
C26_StartStampedFromZero ==
    zp.event_counters[focus] >= 1 =>
        /\ zp.event_start_times[focus] # NoTime
        /\ get_event_duration(zp, focus, now) = now - obs.since

\* The same while reset_event has not been called on the type: the first
\* increment creates the key and stamps it.
C26_StampedWhileNeverReset ==
    (~obs.was_reset /\ zp.event_counters[focus] >= 1) =>
        /\ zp.event_start_times[focus] # NoTime
        /\ get_event_duration(zp, focus, now) = now - obs.since

\* reset_event, then increment_event, then the clock moves on
C26_IncrementAfterReset ==
    /\ obs.was_reset /\ obs.op = "increment"
    /\ zp.event_counters[focus] = 1
    /\ now > obs.since

\* --- C24 ----------------------------------------------------------------------
\* C24: in every zone processor, outgate included, when the first two frames of a
\* fresh processor both carry a shared weapon finding at or above the zone's
\* threshold, process_frame returns a weapon_detected event on the second.
C24_WeaponOnSecondFrame ==
    obs.run = MIN_WEAPON_FRAMES => CountOf(events, "weapon_detected") >= 1

\* The same in the zones whose process_frame runs the shared weapon path
C24_WeaponOnSecondFrameElsewhere ==
    (obs.run = MIN_WEAPON_FRAMES /\ zp.zone_name # "outgate")
        => CountOf(events, "weapon_detected") >= 1

\* no frame of an outgate processor returns a weapon_detected event
C24_OutgateNoWeaponEvent ==
    zp.zone_name = "outgate" => CountOf(events, "weapon_detected") = 0

\* two qualifying weapon frames have gone through a fresh processor of a zone
\* other than outgate, and through an outgate processor
C24_TwoFramesElsewhere == obs.run = MIN_WEAPON_FRAMES /\ zp.zone_name = "corridor"

C24_TwoFramesOutgate == obs.run = MIN_WEAPON_FRAMES /\ zp.zone_name = "outgate"

\* --- C25 ----------------------------------------------------------------------
\* the gates of event type e held on the latest frame: the type's cooldown was
\* active when the frame came, and the frame left the type's suspicion score no
\* higher, advanced none of its frame counters and returned no event of the type
CooldownGateHeld(e) ==
    (obs.acted /\ ~can_emit_event(obs.prev, e, obs.t)) =>
        /\ zp.suspicion_scores[e] <= obs.prev.suspicion_scores[e]
        /\ \A c \in CountersOf(zp.zone_name) :
              GatedType(c) = e => frame_counter(zp, c) <= frame_counter(obs.prev, c)
        /\ CountOf(events, e) = 0

\* C25: on every frame on which an event type's cooldown is active, the type's
\* suspicion score is decayed (never incremented), its frame counter is not
\* advanced and no event of the type is returned, for every sub-detector, the
\* shared weapon and fire/smoke paths included.
C25_CooldownGateFirst == CooldownGateHeld(focus)

\* The same for the sub-detectors that test the cooldown before anything else
C25_CooldownGateFirstOwnDetectors ==
    focus \in {"fight", "fall_detected", "crowd_formation", "mobile_usage",
               "gate_accident", "vehicle_detected"}
        => CooldownGateHeld(focus)

\* on a frame within the cooldown no event of the type is returned, whatever the
\* sub-detector
C25_NoEventInCooldown ==
    (obs.acted /\ ~can_emit_event(obs.prev, focus, obs.t))
        => CountOf(events, focus) = 0

\* a frame with evidence came while the cooldown of its type was active
C25_FrameInCooldown ==
    /\ obs.acted /\ ~can_emit_event(obs.prev, focus, obs.t)
    /\ focus = "fight"
    /\ qualifies(zp.zone_name, [EmptyFrame EXCEPT !.persons = 2,
                                   !.fight = [mode |-> "pose", confidence |-> 70]],
                 "fight")
    /\ zp.suspicion_scores[focus] < obs.prev.suspicion_scores[focus]

\* --- C23 ----------------------------------------------------------------------
\* both threads have made exactly one call, for the same key with the same
\* confidence, at times less than the cooldown apart: the key was never seen
\* before either call
SameFirstCalls ==
    /\ \A th \in Threads : wk.th[th].calls = 1 /\ wk.th[th].pc = "idle"
    /\ wk.th["w1"].camera_id = wk.th["w2"].camera_id
    /\ wk.th["w1"].confidence = wk.th["w2"].confidence
    /\ wk.th["w1"].t - wk.th["w2"].t < get_cooldown(RaceType)
    /\ wk.th["w2"].t - wk.th["w1"].t < get_cooldown(RaceType)

\* C23: should_emit is atomic per key: of two threads' calls for the same
\* never-seen key with equal confidence at the same time exactly one returns
\* True, and whenever the lock is free the stored (last_time, last_confidence) of
\* a key is the pair of one single emitting call.
C23_AtomicPerKey ==
    /\ SameFirstCalls => (wk.th["w1"].emit # wk.th["w2"].emit)
    /\ wk.lock = NoThread =>
          \A k \in CooldownKeys :
              wk.state[k] # NoEntry =>
                  <<k, wk.state[k].last_time, wk.state[k].last_confidence>> \in wk.log

\* the two threads were inside should_emit for the same never-seen key at once
\* and both have returned; a later call has replaced the stored pair of an
\* earlier one
C23_Witness ==
    /\ SameFirstCalls
    /\ wk.th["w1"].t = wk.th["w2"].t
    /\ wk.th["w1"].emit

C23_WitnessRestamped ==
    /\ wk.lock = NoThread
    /\ \E k \in CooldownKeys : Cardinality({e \in wk.log : e[1] = k}) >= 2

\* --- C22 ----------------------------------------------------------------------
\* C22: when several threads construct a singleton for the first time at once,
\* all obtain the same instance, the initialisation body runs exactly once (at
\* most once so far, once when a thread has its instance), no thread observes a
\* partly initialised instance, and nothing a thread has inserted is discarded
\* by another thread's initialisation.
C22_InitialisationSafe ==
    /\ wk.made <= 1
    /\ wk.bodies <= 1
    /\ (\E th \in Threads : wk.pc[th] \in {"ready", "used"}) => wk.bodies = 1
    /\ ~wk.partial
    /\ ~wk.lost

\* all threads obtain the same instance, whatever the class
C22_OneInstance == wk.made <= 1

\* SharedDetectors, whose __init__ body runs under the class lock, is safe
C22_SharedDetectorsSafe ==
    wk.kind = "SharedDetectors" =>
        /\ wk.bodies <= 1
        /\ (\E th \in Threads : wk.pc[th] \in {"ready", "used"})
              => (wk.bodies = 1 /\ wk.complete)

\* both threads were in __new__ before an instance existed and both have their
\* instance
C22_BothConstructed ==
    /\ \A th \in Threads : wk.pc[th] = "used"
    /\ wk.made = 1

\* --- C21 ----------------------------------------------------------------------
\* C21: the Re-Id manager is shared by all camera workers: a person already seen
\* through another worker is given the same global_person_id with cross_camera
\* true; and cross_camera is true only when the person has been seen by two
\* different physical cameras.
C21_SharedAcrossWorkers ==
    wk.call.worker # "" =>
        /\ (wk.call.seen_before \ {wk.call.worker} # {}) =>
              /\ wk.call.cross_camera
              /\ wk.call.global_person_id = wk.call.first_id
        /\ wk.call.cross_camera =>
              Cardinality(wk.seen[wk.call.person]) >= 2

\* Within one single-zone worker a person keeps the id of the first sighting
\* and is never flagged cross_camera
C21_StableWithinWorker ==
    (wk.call.worker \in {"camA", "camB"} /\ wk.call.seen_before = {wk.call.worker}) =>
        /\ ~wk.call.cross_camera
        /\ wk.call.global_person_id = wk.call.first_id

\* a person registered through camA is seen through camB
C21_SeenOnSecondCamera ==
    /\ wk.call.worker = "camB"
    /\ wk.call.seen_before = {"camA"}

\* a person is flagged cross_camera
C21_FlaggedCrossCamera == wk.call.cross_camera

\* --- C27 ----------------------------------------------------------------------
\* C27: for a live-stream source a frame decode failure makes the loop exit: the
\* capture is not rewound and no further frame is read; only file sources are
\* rewound and the loop continued.
C27_StreamFailureExits ==
    wk.source = "stream" => (~wk.rewound /\ ~wk.read_after_failure)

\* every failed read is followed by the rewind, whatever the source
C27_AnyFailureRewinds == wk.failed => wk.rewound

\* a file source is rewound after a failed read and read again
C27_FileReadAgain ==
    wk.source = "file" /\ wk.failed /\ wk.rewound /\ wk.read_after_failure

\* a live stream is read again after a failed read
C27_StreamReadAgain ==
    wk.source = "stream" /\ wk.failed /\ wk.read_after_failure

\* --- C28 ----------------------------------------------------------------------
\* C28: per-frame errors are isolated: after an exception of process_frame or a
\* failed POST (timeout, no connection, a status other than 200) the thread is
\* back at the loop test, and a worker that has met such errors leaves its loop
\* only when stop() was called.
C28_ErrorsIsolated ==
    /\ wk.last \in PerFrameErrors => wk.pc \in {"test", "throttle", "frame"}
                                     \/ wk.stop_called
    /\ (wk.errors /\ wk.pc \in {"cleanup", "done"}) => wk.stop_called

\* after a per-frame error a later frame's event was evaluated and sent
C28_Witness ==
    /\ wk.errors /\ wk.sent_after_error
    /\ wk.last = "post_200"
    /\ ~wk.stop_called

\* --- C29 ----------------------------------------------------------------------
\* C29: shutdown is never lost: once stop() has been called, whether before,
\* during or after start() runs on the worker's thread, the loop eventually
\* exits and _safe_cleanup runs, releasing the capture.
C29_StopLeadsToCleanup ==
    wk.stop_called ~> (wk.pc = "done" /\ wk.cap = "released")

\* The same for a stop() that comes when start() has passed
\* self._shutdown_flag.clear(), and for a source that cannot be opened
C29_StopInLoopLeadsToCleanup ==
    (wk.stop_called /\ wk.stopped_at \in {"test", "throttle", "frame", "cleanup", "done"})
        ~> (wk.pc = "done" /\ wk.cap = "released")

C29_UnopenedLeadsToCleanup ==
    (wk.source = "cannot_open") ~> (wk.pc = "done" /\ wk.cap = "released")

\* once stop() was called before start() cleared the flag, the loop test still
\* passes
C29_LoopRunsAfterStop ==
    /\ wk.stop_called
    /\ wk.stopped_at \in {"idle", "set_running", "clear_flag"}
    /\ wk.pc = "frame"

\* --- C30 ----------------------------------------------------------------------
\* run_all_configured_cameras has built and started what it will: it has left
\* with an exception or with no workers, or every started thread has reached its
\* loop or ended
LaunchSettled ==
    /\ wk.pc \in {"raised", "no_workers", "launched"}
    /\ \A i \in 1 .. MaxCameras : wk.status[i] # "started"

\* C30: a camera whose worker cannot be built (unknown zone) or started (source
\* that cannot be opened) does not prevent the workers of the other cameras from
\* being created and started: every sound camera's worker ends up running.
C30_OtherWorkersRun ==
    LaunchSettled =>
        \A i \in 1 .. MaxCameras : wk.cameras[i] = "ok" => wk.status[i] = "running"

\* The same when no listed camera has an unknown zone: sources that cannot be
\* opened or are missing stop only their own camera
C30_OtherWorkersRunKnownZones ==
    (LaunchSettled /\ \A i \in 1 .. MaxCameras : wk.cameras[i] # "unknown_zone") =>
        \A i \in 1 .. MaxCameras : wk.cameras[i] = "ok" => wk.status[i] = "running"

\* a sound camera runs next to one whose source could not be opened; a sound
\* camera was never started because another has an unknown zone
C30_RunsBesideUnopened ==
    /\ LaunchSettled
    /\ \E i, j \in 1 .. MaxCameras :
          /\ wk.cameras[i] = "cannot_open" /\ wk.status[i] = "ended"
          /\ wk.cameras[j] = "ok" /\ wk.status[j] = "running"

C30_NotStartedBesideUnknownZone ==
    /\ wk.pc = "raised"
    /\ \E i \in 1 .. MaxCameras : wk.cameras[i] = "ok" /\ wk.status[i] = "built"

\* --- C31 ----------------------------------------------------------------------
\* C31: a zone processor's process_frame leaves the shared findings unchanged, so
\* every zone processor of a multi-zone worker finds exactly the poses the shared
\* detectors produced for the frame, whichever zones ran before it.
C31_SharedFindingsUnchanged ==
    /\ wk.poses = wk.produced
    /\ \A i \in 1 .. Len(ALL_ZONES) :
          i < wk.next => wk.seen[ALL_ZONES[i]] = wk.produced

\* The zones that run before any aligning zone, and every zone when each pose
\* came with a track_id, do find the poses as produced
C31_UnchangedBeforeAlignment ==
    /\ wk.next > 2 => (wk.seen["outgate"] = wk.produced /\ wk.seen["corridor"] = wk.produced)
    /\ (\A i \in DOMAIN wk.produced : wk.produced[i].track_id # NoId)
          => wk.poses = wk.produced

\* school_ground found a pose carrying an object id of corridor's tracker that
\* its own tracker gave to nobody
C31_ForeignTrackId ==
    /\ wk.next > 3
    /\ \E i \in DOMAIN wk.produced :
          /\ wk.produced[i].track_id = NoId
          /\ wk.seen["school_ground"][i].track_id # NoId
          /\ \A j \in DOMAIN wk.persons["school_ground"] :
                wk.persons["school_ground"][j].object_id
                    # wk.seen["school_ground"][i].track_id

\* --- C32 ----------------------------------------------------------------------
\* C32: in MultiZonePipeline.process_frame the shared detectors run exactly once
\* per frame, each zone's tracker and zone processor are advanced at most once
\* per frame, also when a zone's processing raises, and an exception in one zone
\* does not stop the remaining zones.
C32_OncePerFrame ==
    wk.frames > 0 =>
        /\ wk.c.shared_runs = 1
        /\ \A z \in Zones : wk.c.tracker_runs[z] <= 1 /\ wk.c.zone_runs[z] <= 1
        /\ ~wk.c.left

\* As long as no zone raised an AttributeError, or a TypeError out of its zone
\* processor, the frame is processed as C32 says
C32_OncePerFrameOtherExceptions ==
    (\A z \in Zones : wk.c.raised[z] # "AttributeError" /\ wk.c.zone_runs[z] <= 1)
        => C32_OncePerFrame

\* a zone raised an exception that is neither and the zones after it processed the frame
C32_IsolatedException ==
    /\ wk.c.raised["outgate"] = "ValueError"
    /\ wk.c.zone_runs["classroom"] = 1
    /\ wk.pc = "shared" /\ wk.frame_idx > 0

\* an AttributeError in corridor: the shared detectors ran a second time
C32_SharedRunTwice ==
    wk.c.raised["corridor"] = "AttributeError" /\ wk.c.shared_runs = 2

\* the fallback raised: the zones after corridor never processed the frame
C32_RemainingZonesSkipped ==
    /\ wk.c.left /\ wk.c.raised["corridor"] = "AttributeError"
    /\ wk.c.tracker_runs["school_ground"] = 0

\* --- C33 ----------------------------------------------------------------------
\* C33 as stated: the motion analyzer keeps a vehicle's history for 2 seconds
\* after the vehicle was last detected; a vehicle detected again with the same
\* object_id within 2 s still has its earlier observations (has_track is true).
C33_HistoryKeptTwoSeconds ==
    \A vid \in obs.present :
        (/\ obs.prev_seen[vid] # NoTime
         /\ obs.t - obs.prev_seen[vid] < VEHICLE_MEMORY_SECONDS)
            => has_track(trk, vid)

\* C33: the history of a vehicle holds the observations of the consecutive
\* frames the vehicle has been in up to the last frame, at most 8, and nothing
\* else: a vehicle missing from a frame has no history after that frame, and one
\* detected again starts with a single observation.
C33_HistoryOfCurrentRunOnly ==
    \A vid \in VehicleIds :
        /\ Len(trk[vid]) = Min(HISTORY_LEN, obs.run[vid])
        /\ vid \notin obs.present => trk[vid] = <<>>

\* a vehicle is back after a frame without it, less than 2 s after it was last
\* seen, and has one observation
C33_DetectedAgain ==
    /\ 1 \in obs.present
    /\ obs.prev_seen[1] # NoTime
    /\ obs.t - obs.prev_seen[1] < VEHICLE_MEMORY_SECONDS
    /\ obs.run[1] = 1
    /\ ~has_track(trk, 1)
    /\ get_speed(trk, 1) = 0
    /\ obs.run[2] >= 3

\* --- C34 ----------------------------------------------------------------------
\* C34: a vehicle is in a collision candidate only on frames where the analyzer
\* holds at least 2 observations of it from the current run of frames; on a frame
\* whose vehicles all appear for the first time no gate_accident is returned and
\* the frame counter does not advance.
C34_PhantomRejected ==
    ~obs.gated =>
        /\ \A c \in obs.cands :
              obs.run[c.vehicle_id] >= 2 /\ Len(trk[c.vehicle_id]) >= 2
        /\ (zp.accident_frame_count > obs.prev_count \/ events # <<>>)
              => obs.run[obs.best.vehicle_id] >= 2
        /\ (\A vid \in obs.present : obs.run[vid] = 1)
              => (events = <<>> /\ zp.accident_frame_count = 0)

\* a vehicle appears for the first time with its box over the person's: no
\* candidate, no event, the counter reset; the other vehicle's frames counted before
C34_FirstAppearanceSkipped ==
    /\ ~obs.gated
    /\ obs.present = {1} /\ obs.run[1] = 1 /\ obs.iou[1] = 20 /\ obs.persons = 1
    /\ obs.cands = {} /\ events = <<>>
    /\ obs.prev_count = 2 /\ zp.accident_frame_count = 0

\* a tracked vehicle is the event's vehicle on a frame where the other vehicle
\* appears for the first time
C34_EmittedByTrackedVehicle ==
    /\ events # <<>>
    /\ obs.best.vehicle_id = 2 /\ obs.run[2] >= 2 /\ obs.run[1] = 1 /\ obs.iou[1] = 20

\* --- C35 ----------------------------------------------------------------------
\* the first event's signal and confidence, and the distance to a second one
C35_EventAsExpected ==
    /\ obs.emitted # <<>> =>
          /\ obs.emitted[1].signal \in {"strong_overlap", "approaching_proximate"}
          /\ obs.emitted[1].confidence >= ACCIDENT_MIN_AVG_CONFIDENCE
    /\ obs.frames >= 5 => Len(obs.emitted) >= 1
    /\ Len(obs.emitted) >= 2 =>
          obs.emitted[2].t - obs.emitted[1].t >= get_event_cooldown("gate_accident")

\* C35 as stated: in the scenario one gate_accident is emitted, at frame 5, with
\* signal strong_overlap or approaching_proximate and confidence >= 0.35, and no
\* second one within 8 s.
C35_EmittedAtFrameFive ==
    /\ C35_EventAsExpected
    /\ obs.emitted # <<>> => obs.emitted[1].frame = 5

\* C35: in the scenario the first gate_accident is emitted at frame 4 when the
\* vehicle has moved more than 2 px between frames 1 and 2 (frame 2 then has the
\* signal approaching_proximate or approaching_moving and frames 2-4 are the three
\* qualifying frames), and at frame 5 when it has not; its signal is
\* strong_overlap, its confidence >= 0.35, and no second one follows within 8 s.
C35_EmittedAtFrameFourOrFive ==
    /\ C35_EventAsExpected
    /\ obs.emitted # <<>> =>
          /\ obs.emitted[1].signal = "strong_overlap"
          /\ obs.emitted[1].frame =
                IF obs.sc.x2 - 100 > MIN_SPEED_PX THEN 4 ELSE 5

\* the vehicle drove on frame 2 and the event came on frame 4; frame 5 returned nothing
C35_EmittedAtFrameFour ==
    /\ obs.frames = 5 /\ obs.sc.x2 = 200
    /\ Len(obs.emitted) = 1 /\ obs.emitted[1].frame = 4
    /\ events = <<>>

\* the vehicle stood on frame 2 and the event came on frame 5
C35_EmittedAtFrameFiveStanding ==
    /\ obs.frames = 5 /\ obs.sc.x2 = 100
    /\ Len(obs.emitted) = 1 /\ obs.emitted[1].frame = 5

\* a second event, 10 s after the first
C35_SecondEventLater ==
    Len(obs.emitted) = 2 /\ obs.emitted[2].frame = 14

\* --- C36 ----------------------------------------------------------------------
\* the after_hours_intrusion events of the list after one pass of filter
IntrusionsAdded ==
    {i \in DOMAIN ahc.events : ahc.events[i].event_type = "after_hours_intrusion"}

PersonInvolving == {"mobile_usage", "fight", "crowd_formation", "weapon_detected",
                    "fall_detected"}

\* C36: filter adds an after_hours_intrusion event only when the list holds an
\* event that involves a person; a list of events involving no person (a single
\* fire_smoke_detected) comes back with none added, and an empty list stays empty.
C36_IntrusionNeedsPersonEvent ==
    ahc.passes = 1 =>
        /\ IntrusionsAdded # {} =>
              \E i \in DOMAIN ahc.given : ahc.given[i].event_type \in PersonInvolving
        /\ ahc.given = <<>> => ahc.events = <<>>

\* An intrusion event is added only to a list that holds an event other than
\* vehicle_detected, and an empty list stays empty
C36_IntrusionNeedsNonVehicleEvent ==
    ahc.passes = 1 =>
        /\ IntrusionsAdded # {} =>
              \E i \in DOMAIN ahc.given : ahc.given[i].event_type # "vehicle_detected"
        /\ ahc.given = <<>> => ahc.events = <<>>

\* after hours in the corridor a list of one fire_smoke_detected came back with
\* an intrusion event
C36_IntrusionOnFireSmoke ==
    /\ ahc.passes = 1 /\ ahc.zone = "corridor"
    /\ Len(ahc.given) = 1 /\ ahc.given[1].event_type = "fire_smoke_detected"
    /\ IntrusionsAdded = {2}

\* a list of one vehicle_detected came back with none
C36_NoIntrusionOnVehicle ==
    /\ ahc.passes = 1 /\ ahc.zone = "corridor" /\ is_after_hours(ahc.timestamp)
    /\ Len(ahc.given) = 1 /\ ahc.given[1].event_type = "vehicle_detected"
    /\ IntrusionsAdded = {}

\* --- C37 ----------------------------------------------------------------------
FightEvents == {i \in DOMAIN events : events[i].event_type = "fight"}

\* C37: every fight event returned by a corridor, school_ground or classroom
\* processor, from the pose check or the bbox check, has confidence >= 0.5 and
\* comes on the third or a later frame in a row with a candidate pair.
C37_FightConfident ==
    \A i \in FightEvents :
        /\ events[i].confidence >= 50
        /\ obs.run >= 3

\* Every fight event comes on the third or a later qualifying frame in a row, and
\* one found by the bbox check has confidence >= 0.5
C37_FightAfterThreeFrames ==
    \A i \in FightEvents :
        /\ obs.run >= 3 /\ events[i].frame_count >= MIN_FIGHT_FRAMES
        /\ events[i].source = "bbox" => events[i].confidence >= 50

\* a fight event found by the pose check, of confidence 0.45
C37_PoseFightBelowHalf ==
    \E i \in FightEvents :
        /\ events[i].source = "pose" /\ events[i].confidence = 45
        /\ obs.pair.c1 = 40 /\ obs.pair.c2 = 50

\* a fight event found by the bbox check
C37_BboxFight ==
    \E i \in FightEvents : events[i].source = "bbox"

\* --- C38 ----------------------------------------------------------------------
\* C38: of the event types the pipeline sends only fight and gate_accident are
\* keys of EVENT_CONFIG; for every other one process_event returns incident =
\* false whatever the confidence and the number of events, and the /event handler
\* records no alert and queues no broadcast for it.
C38_OnlyFightAndAccidentAlert ==
    /\ PipelineEventTypes \cap DOMAIN EVENT_CONFIG = {"fight", "gate_accident"}
    /\ eng.event.event_type \notin {"fight", "gate_accident"} => ~eng.result.incident
    /\ \A i \in DOMAIN eng.alerts_history :
          eng.alerts_history[i] \in {"fight", "gate_accident"}
    /\ \A i \in DOMAIN eng.alert_broadcast_queue :
          eng.alert_broadcast_queue[i] \in {"fight", "gate_accident"}

\* the second fire_smoke_detected event in a row, of confidence 1.0, got no alert,
\* after a gate_accident of confidence 1.0 got one
C38_FireSmokeNoAlert ==
    /\ eng.event.event_type = "fire_smoke_detected" /\ eng.event.confidence = 100
    /\ eng.streak = 2 /\ eng.n = 3
    /\ ~eng.result.incident
    /\ eng.alerts_history = <<"gate_accident">>
    /\ eng.alert_broadcast_queue = <<"gate_accident">>

\* --- C39 ----------------------------------------------------------------------
\* C39: the fight events a pipeline posts are at least 8 s apart, so the engine's
\* 5 s window of the pipeline's (tenant, camera) key never holds the 3 events
\* min_frames asks for, and process_event never returns incident = true for a
\* fight event of a pipeline, however long the fight lasts.
C39_NoFightIncident ==
    /\ \A i, j \in DOMAIN eng.posted :
          i < j => eng.posted[j] - eng.posted[i] >= get_event_cooldown("fight")
    /\ Len(eng.recent[FightKey]) < EVENT_CONFIG["fight"].min_frames
    /\ ~eng.incident

\* a fight sustained for 16 s: three events posted, each of confidence 0.9, the
\* last one alone in its window
C39_SustainedFight ==
    /\ Len(eng.posted) = 3
    /\ events # <<>> /\ events[1].confidence = 90
    /\ Len(eng.recent[FightKey]) = 1
    /\ eng.recent[FightKey][1].confidence = 90
    /\ ~eng.incident

\* --- C40 ----------------------------------------------------------------------
\* C40: the emission is stamped in the cooldown manager before the POST and
\* stays when the POST fails: a failed event is posted once and not again, and a
\* later event of the same camera and type that comes within the cooldown of a
\* failed one with confidence <= 1.10 x the failed event's is suppressed.
C40_FailedDeliveryConsumesCooldown ==
    /\ obs.posts = obs.passed
    /\ \A f \in obs.failed_before :
          (/\ obs.t - f.t < get_cooldown("mobile_usage")
           /\ obs.confidence * 100 <= f.confidence * CONFIDENCE_FACTOR)
              => ~obs.emit
    /\ (obs.emit /\ obs.outcome # "post_200") =>
          cm.state[DeliveryKey] = [last_time |-> obs.t, last_confidence |-> obs.confidence]

\* an event of confidence 0.55 is suppressed 3 s after an event of confidence
\* 0.50 whose POST timed out; nothing has reached the backend
C40_SuppressedAfterFailure ==
    /\ obs.calls = 2 /\ ~obs.emit /\ obs.confidence = 55
    /\ obs.failed_before = {[t |-> obs.t - 3, confidence |-> 50]}
    /\ obs.delivered = 0 /\ obs.posts = 1
====
